---- MODULE Spec2Model ----
(***************************************************************************)
(* Model of the multi-repository pusher core: the endpoint registry        *)
(* (core/repository.rs), the error classifier (core/error_handler.rs),     *)
(* the per-endpoint executors and the All-selector batches                 *)
(* (core/git_operations.rs) and the Group-selector batches                 *)
(* (core/batch_operations.rs).                                             *)
(*                                                                         *)
(* The version-control engine (git2) is the environment: every engine call *)
(* either succeeds or fails with a raw message, chosen nondeterministically*)
(* when the call is made.  Every engine call a batch makes is appended to  *)
(* the log `calls`, so that what a batch touched can be stated.            *)
(***************************************************************************)
EXTENDS Integers, Sequences, FiniteSets, TLC

VARIABLES
    config,        \* RepoConfig: [repositories, groups]
    pc,            \* position of the running batch: "idle", "loop", "done"
    op,            \* name of the batch function that is running ("" if none)
    group_name,    \* its group_name argument ("" for the All batches)
    repositories,  \* the endpoint list the batch resolved on entering its loop
    idx,           \* index in `repositories` of the next endpoint
    results,       \* the Vec<(String, String)> the batch builds and returns
    calls,         \* log of the engine calls made by the batch
    raw,           \* classifier run: the raw error message
    classified,    \* classifier run: the GitOperationError produced
    engine,        \* executor run: what the engine answers to each call
    creds,         \* credential callback run: the credentials it built
    editor         \* the thread that edits the registry: its pending edit

vars == <<config, pc, op, group_name, repositories, idx, results, calls,
          raw, classified, engine, creds, editor>>

(***************************************************************************)
(* Bounds                                                                  *)
(***************************************************************************)
MaxRepos == 3      \* longest endpoint list of an initial registry
MaxMembers == 2    \* longest member list of an initial group

Names == {"a", "b", "c"}
Selectors == {"G", "H"}   \* group names a batch is asked for; only "G" may exist

SeqsUpTo(S, n) == UNION {[1..k -> S] : k \in 0..n}
NoDup(s) == \A i, j \in DOMAIN s : i # j => s[i] # s[j]

(***************************************************************************)
(* Result<()> of an executor or of one engine call                         *)
(***************************************************************************)
Ok == [ok |-> TRUE, err |-> ""]
Err(m) == [ok |-> FALSE, err |-> m]

\* str::contains
Contains(s, t) ==
    \E i \in 1..(Len(s) - Len(t) + 1) : SubSeq(s, i, i + Len(t) - 1) = t

(***************************************************************************)
(* core/repository.rs                                                      *)
(***************************************************************************)
RepositoryInfo_new(name, url) ==
    [name |-> name, url |-> url, auth_type |-> "Default",
     auth_token |-> "", ssh_key_path |-> "", group |-> ""]

RepositoryGroup_new(name, description) ==
    [name |-> name, description |-> description, repository_names |-> <<>>]

RepoConfig_new == [repositories |-> <<>>, groups |-> <<>>]

\* Vec::contains
SeqContains(s, x) == \E i \in DOMAIN s : s[i] = x

\* Iterator::filter(|repo| names.contains(&repo.name)).collect(): the
\* endpoints whose name is in `names`, in the order of `repos`
RECURSIVE FilterRepos(_, _)
FilterRepos(repos, names) ==
    IF repos = <<>> THEN <<>>
    ELSE (IF SeqContains(names, Head(repos).name) THEN <<Head(repos)>> ELSE <<>>)
         \o FilterRepos(Tail(repos), names)

\* RepoConfig::get_group: the first group with that name, if any
get_group(cfg, g) ==
    LET hits == {i \in DOMAIN cfg.groups : cfg.groups[i].name = g}
    IN  IF hits = {} THEN <<>>
        ELSE <<cfg.groups[CHOOSE i \in hits : \A j \in hits : i <= j]>>

\* Mutation of get_repositories_in_group: walks the member list and looks
\* each member up, so the result is in member-list order.
RECURSIVE MembersInListOrder(_, _)
MembersInListOrder(repos, members) ==
    IF members = <<>> THEN <<>>
    ELSE FilterRepos(repos, <<Head(members)>>)
         \o MembersInListOrder(repos, Tail(members))

get_repositories_in_group_by_member_order(cfg, g) ==
    IF get_group(cfg, g) # <<>>
    THEN MembersInListOrder(cfg.repositories,
                            get_group(cfg, g)[1].repository_names)
    ELSE <<>>

\* RepoConfig::get_repositories_in_group
get_repositories_in_group(cfg, g) ==
    IF get_group(cfg, g) # <<>>
    THEN FilterRepos(cfg.repositories, get_group(cfg, g)[1].repository_names)
    ELSE <<>>

(***************************************************************************)
(* core/error_handler.rs                                                   *)
(***************************************************************************)
ErrorTypes == {"Authentication", "Network", "Repository", "Permission", "Unknown"}

GitOperationError_new(operation, repository, error_message, error_type) ==
    [operation |-> operation, repository |-> repository,
     error_message |-> error_message, error_type |-> error_type]

\* Mutation of format_user_message: the Authentication template names the
\* operation like the other templates do.
format_user_message_verb_in_authentication(e) ==
    CASE e.error_type = "Authentication" ->
            "Authentication failed while " \o e.operation \o " repository '"
            \o e.repository \o "'. Please check your credentials."
      [] e.error_type = "Network" ->
            "Network error while " \o e.operation \o " repository '"
            \o e.repository \o "'. Please check your connection."
      [] e.error_type = "Repository" ->
            "Repository error while " \o e.operation \o " '" \o e.repository
            \o "'. The repository may be corrupted or inaccessible."
      [] e.error_type = "Permission" ->
            "Permission denied while " \o e.operation \o " repository '"
            \o e.repository \o "'. Check your access rights."
      [] e.error_type = "Unknown" ->
            "Error while " \o e.operation \o " repository '" \o e.repository
            \o "': " \o e.error_message

\* GitOperationError::format_user_message
format_user_message(e) ==
    CASE e.error_type = "Authentication" ->
            "Authentication failed for repository '" \o e.repository
            \o "'. Please check your credentials."
      [] e.error_type = "Network" ->
            "Network error while " \o e.operation \o " repository '"
            \o e.repository \o "'. Please check your connection."
      [] e.error_type = "Repository" ->
            "Repository error while " \o e.operation \o " '" \o e.repository
            \o "'. The repository may be corrupted or inaccessible."
      [] e.error_type = "Permission" ->
            "Permission denied while " \o e.operation \o " repository '"
            \o e.repository \o "'. Check your access rights."
      [] e.error_type = "Unknown" ->
            "Error while " \o e.operation \o " repository '" \o e.repository
            \o "': " \o e.error_message

\* Mutation of handle_git_error: the Repository cues are tested first.
handle_git_error_repository_first(operation, repo_info, error_message) ==
    GitOperationError_new(operation, repo_info.name, error_message,
        IF \/ Contains(error_message, "repository")
           \/ Contains(error_message, "Repository")
           \/ Contains(error_message, "not found")
           \/ Contains(error_message, "corrupt")
        THEN "Repository"
        ELSE IF \/ Contains(error_message, "authentication")
                \/ Contains(error_message, "Authentication")
                \/ Contains(error_message, "401")
                \/ Contains(error_message, "403")
                \/ Contains(error_message, "Unauthorized")
        THEN "Authentication"
        ELSE IF \/ Contains(error_message, "network")
                \/ Contains(error_message, "Network")
                \/ Contains(error_message, "connection")
                \/ Contains(error_message, "Connection")
                \/ Contains(error_message, "timeout")
                \/ Contains(error_message, "Timeout")
        THEN "Network"
        ELSE IF \/ Contains(error_message, "permission")
                \/ Contains(error_message, "Permission")
                \/ Contains(error_message, "access denied")
        THEN "Permission"
        ELSE "Unknown")

\* handle_git_error: error.to_string() is the message handed in
handle_git_error(operation, repo_info, error_message) ==
    GitOperationError_new(operation, repo_info.name, error_message,
        IF \/ Contains(error_message, "authentication")
           \/ Contains(error_message, "Authentication")
           \/ Contains(error_message, "401")
           \/ Contains(error_message, "403")
           \/ Contains(error_message, "Unauthorized")
        THEN "Authentication"
        ELSE IF \/ Contains(error_message, "network")
                \/ Contains(error_message, "Network")
                \/ Contains(error_message, "connection")
                \/ Contains(error_message, "Connection")
                \/ Contains(error_message, "timeout")
                \/ Contains(error_message, "Timeout")
        THEN "Network"
        ELSE IF \/ Contains(error_message, "permission")
                \/ Contains(error_message, "Permission")
                \/ Contains(error_message, "access denied")
        THEN "Permission"
        ELSE IF \/ Contains(error_message, "repository")
                \/ Contains(error_message, "Repository")
                \/ Contains(error_message, "not found")
                \/ Contains(error_message, "corrupt")
        THEN "Repository"
        ELSE "Unknown")

\* Mutation of format_error_result: the two arms of the match are swapped.
format_error_result_swapped(operation, repo_info, result) ==
    IF ~result.ok
    THEN <<repo_info.name, "Success">>
    ELSE <<repo_info.name,
           format_user_message(handle_git_error(operation, repo_info, result.err))>>

\* format_error_result
format_error_result(operation, repo_info, result) ==
    IF result.ok
    THEN <<repo_info.name, "Success">>
    ELSE <<repo_info.name,
           format_user_message(handle_git_error(operation, repo_info, result.err))>>

(***************************************************************************)
(* core/git_operations.rs: the per-endpoint executors.  `eng` holds the    *)
(* outcome of each engine call the executor may make.                      *)
(***************************************************************************)
\* the executor's `.map_err(|e| anyhow!(handle_git_error(..).format_user_message()))`
map_err(operation, repo_info, r) ==
    IF r.ok THEN Ok
    ELSE Err(format_user_message(handle_git_error(operation, repo_info, r.err)))

\* push_to_remote: find or create the remote (`?` passes the raw error on),
\* then push
push_to_remote(repo_info, eng) ==
    IF ~eng.remote.ok THEN Err(eng.remote.err)
    ELSE map_err("pushing to", repo_info, eng.push)

\* Mutation of pull_from_remote: a conflicted index is reported through the
\* classifier like the failures of the other steps.
pull_from_remote_conflict_classified(repo_info, eng) ==
    IF ~eng.remote.ok THEN Err(eng.remote.err)
    ELSE IF ~eng.fetch.ok THEN map_err("fetching from", repo_info, eng.fetch)
    ELSE IF ~eng.fetch_head.ok
         THEN map_err("finding FETCH_HEAD in", repo_info, eng.fetch_head)
    ELSE IF ~eng.annotated.ok
         THEN map_err("converting FETCH_HEAD in", repo_info, eng.annotated)
    ELSE IF ~eng.merge.ok THEN map_err("merging in", repo_info, eng.merge)
    ELSE IF ~eng.index.ok THEN map_err("checking index in", repo_info, eng.index)
    ELSE IF eng.has_conflicts
         THEN map_err("merging in", repo_info, Err("Merge conflicts detected"))
    ELSE Ok

\* pull_from_remote: remote, fetch, FETCH_HEAD, annotated commit, merge,
\* index, conflict check
pull_from_remote(repo_info, eng) ==
    IF ~eng.remote.ok THEN Err(eng.remote.err)
    ELSE IF ~eng.fetch.ok THEN map_err("fetching from", repo_info, eng.fetch)
    ELSE IF ~eng.fetch_head.ok
         THEN map_err("finding FETCH_HEAD in", repo_info, eng.fetch_head)
    ELSE IF ~eng.annotated.ok
         THEN map_err("converting FETCH_HEAD in", repo_info, eng.annotated)
    ELSE IF ~eng.merge.ok THEN map_err("merging in", repo_info, eng.merge)
    ELSE IF ~eng.index.ok THEN map_err("checking index in", repo_info, eng.index)
    ELSE IF eng.has_conflicts THEN Err("Merge conflicts detected")
    ELSE Ok

\* fetch_from_remote
fetch_from_remote(repo_info, eng) ==
    IF ~eng.remote.ok THEN Err(eng.remote.err)
    ELSE map_err("fetching from", repo_info, eng.fetch)

\* clone_repository: clone, then add the remote named after the endpoint
clone_repository(repo_info, eng) ==
    IF ~eng.clone.ok THEN map_err("cloning", repo_info, eng.clone)
    ELSE map_err("adding remote to", repo_info, eng.remote)

(***************************************************************************)
(* The engine as environment: what each engine call may answer             *)
(***************************************************************************)
\* the raw message of a failing network or remote call inside a batch
RawErrors == {"401 Unauthorized"}
EngineResults == {Ok} \cup {Err(m) : m \in RawErrors}

OpenResults == {Ok, Err("could not find repository from '.'")}
AddResults == {Ok, Err("could not write index")}
CommitResults == {Ok, Err("config value 'user.name' was not found")}

PushOk == [remote |-> Ok, push |-> Ok]
PushEngines ==
    {PushOk} \cup {[PushOk EXCEPT !.remote = Err(m)] : m \in RawErrors}
             \cup {[PushOk EXCEPT !.push = Err(m)] : m \in RawErrors}

PullOk == [remote |-> Ok, fetch |-> Ok, fetch_head |-> Ok, annotated |-> Ok,
           merge |-> Ok, index |-> Ok, has_conflicts |-> FALSE]
PullSteps == {"remote", "fetch", "fetch_head", "annotated", "merge", "index"}
PullEngines ==
    {PullOk} \cup {[PullOk EXCEPT ![s] = Err(m)] : s \in PullSteps, m \in RawErrors}
             \cup {[PullOk EXCEPT !.has_conflicts = TRUE]}

FetchOk == [remote |-> Ok, fetch |-> Ok]
FetchEngines ==
    {FetchOk} \cup {[FetchOk EXCEPT !.remote = Err(m)] : m \in RawErrors}
              \cup {[FetchOk EXCEPT !.fetch = Err(m)] : m \in RawErrors}

CloneOk == [clone |-> Ok, remote |-> Ok]
CloneEngines ==
    {CloneOk} \cup {[CloneOk EXCEPT !.clone = Err(m)] : m \in RawErrors}
              \cup {[CloneOk EXCEPT !.remote = Err(m)] : m \in RawErrors}

\* one entry of the log of engine calls
Call(call, target, ok) == [call |-> call, target |-> target, ok |-> ok]

(***************************************************************************)
(* The batches.  Each batch function is one action with three phases: the  *)
(* code before the loop, one iteration of the loop, and the return.        *)
(***************************************************************************)
batchFrame == <<config, raw, classified, engine, creds, editor>>
loopFrame == <<config, op, group_name, repositories, raw, classified,
               engine, creds, editor>>

\* Mutation of loop_body: the loop is left at the first failed endpoint.
loop_body_stop_on_error(call, operation, repo_info, result) ==
    /\ results' = Append(results, format_error_result(operation, repo_info, result))
    /\ calls' = Append(calls, Call(call, repo_info.name, result.ok))
    /\ idx' = idx + 1
    /\ pc' = IF result.ok THEN "loop" ELSE "done"

\* Mutation of loop_body: only failures are reported.
loop_body_drop_success(call, operation, repo_info, result) ==
    /\ results' = IF result.ok THEN results
                  ELSE Append(results, format_error_result(operation, repo_info, result))
    /\ calls' = Append(calls, Call(call, repo_info.name, result.ok))
    /\ idx' = idx + 1
    /\ pc' = "loop"

\* Mutation of loop_body: a failed endpoint makes the batch take the commit
\* back (a reset of HEAD on the local repository).
loop_body_rollback_on_error(call, operation, repo_info, result) ==
    /\ results' = Append(results, format_error_result(operation, repo_info, result))
    /\ calls' = IF result.ok
                THEN Append(calls, Call(call, repo_info.name, TRUE))
                ELSE calls \o <<Call(call, repo_info.name, FALSE),
                                Call("reset", "", TRUE)>>
    /\ idx' = idx + 1
    /\ pc' = "loop"

\* the body of `for repo_info in ..`: the executor has run on repo_info and
\* answered `result`; one outcome is pushed and the loop goes on
loop_body(call, operation, repo_info, result) ==
    /\ results' = Append(results, format_error_result(operation, repo_info, result))
    /\ calls' = Append(calls, Call(call, repo_info.name, result.ok))
    /\ idx' = idx + 1
    /\ pc' = "loop"

\* the end of the loop: `results` is returned
return_results(o, repos) ==
    /\ pc = "loop" /\ op = o /\ idx > Len(repos)
    /\ pc' = "done"
    /\ UNCHANGED <<config, op, group_name, repositories, idx, results, calls,
                   raw, classified, engine, creds, editor>>

\* a batch that returns before its loop
early_return(o, g, repos, res, log) ==
    /\ op' = o /\ group_name' = g /\ repositories' = repos /\ idx' = 1
    /\ results' = res /\ calls' = log /\ pc' = "done"

\* a batch that enters its loop
enter_loop(o, g, repos, res, log) ==
    /\ op' = o /\ group_name' = g /\ repositories' = repos /\ idx' = 1
    /\ results' = res /\ calls' = log /\ pc' = "loop"

\* Mutation of open_failed: the endpoints are reported all the same, as the
\* group batches do.
open_failed_simulating(e) ==
    <<<<"Repository", "Failed to open repository: " \o e>>>>
    \o [i \in 1..Len(config.repositories) |->
            <<config.repositories[i].name, "Simulated result">>]

\* the Err(e) arm of `match Repository::open(".")` in the All batches
open_failed(e) ==
    <<<<"Repository", "Failed to open repository: " \o e>>>>

\* git_operations::push_to_all_repositories
push_to_all_repositories ==
    \/ /\ pc = "idle"
       /\ \E open \in OpenResults, add \in AddResults, commit \in CommitResults :
            IF ~open.ok
            THEN early_return("push_to_all_repositories", "", <<>>,
                     open_failed(open.err),
                     <<Call("open", "", FALSE)>>)
            ELSE IF ~add.ok
            THEN early_return("push_to_all_repositories", "", <<>>,
                     <<<<"Repository", "Failed to add changes: " \o add.err>>>>,
                     <<Call("open", "", TRUE), Call("add_all_changes", "", FALSE)>>)
            ELSE IF ~commit.ok
            THEN early_return("push_to_all_repositories", "", <<>>,
                     <<<<"Repository", "Failed to commit changes: " \o commit.err>>>>,
                     <<Call("open", "", TRUE), Call("add_all_changes", "", TRUE),
                       Call("commit_changes", "", FALSE)>>)
            ELSE enter_loop("push_to_all_repositories", "", config.repositories, <<>>,
                     <<Call("open", "", TRUE), Call("add_all_changes", "", TRUE),
                       Call("commit_changes", "", TRUE)>>)
       /\ UNCHANGED batchFrame
    \/ /\ pc = "loop" /\ op = "push_to_all_repositories" /\ idx <= Len(config.repositories)
       /\ \E eng \in PushEngines :
            loop_body("push_to_remote", "pushing to", config.repositories[idx],
                      push_to_remote(config.repositories[idx], eng))
       /\ UNCHANGED loopFrame
    \/ return_results("push_to_all_repositories", config.repositories)

\* git_operations::pull_from_all_repositories
pull_from_all_repositories ==
    \/ /\ pc = "idle"
       /\ \E open \in OpenResults :
            IF ~open.ok
            THEN early_return("pull_from_all_repositories", "", <<>>,
                     open_failed(open.err),
                     <<Call("open", "", FALSE)>>)
            ELSE enter_loop("pull_from_all_repositories", "", config.repositories, <<>>,
                     <<Call("open", "", TRUE)>>)
       /\ UNCHANGED batchFrame
    \/ /\ pc = "loop" /\ op = "pull_from_all_repositories" /\ idx <= Len(config.repositories)
       /\ \E eng \in PullEngines :
            loop_body("pull_from_remote", "pulling from", config.repositories[idx],
                      pull_from_remote(config.repositories[idx], eng))
       /\ UNCHANGED loopFrame
    \/ return_results("pull_from_all_repositories", config.repositories)

\* git_operations::fetch_from_all_repositories
fetch_from_all_repositories ==
    \/ /\ pc = "idle"
       /\ \E open \in OpenResults :
            IF ~open.ok
            THEN early_return("fetch_from_all_repositories", "", <<>>,
                     open_failed(open.err),
                     <<Call("open", "", FALSE)>>)
            ELSE enter_loop("fetch_from_all_repositories", "", config.repositories, <<>>,
                     <<Call("open", "", TRUE)>>)
       /\ UNCHANGED batchFrame
    \/ /\ pc = "loop" /\ op = "fetch_from_all_repositories" /\ idx <= Len(config.repositories)
       /\ \E eng \in FetchEngines :
            loop_body("fetch_from_remote", "fetching from", config.repositories[idx],
                      fetch_from_remote(config.repositories[idx], eng))
       /\ UNCHANGED loopFrame
    \/ return_results("fetch_from_all_repositories", config.repositories)

\* git_operations::clone_all_repositories: no local repository is opened
clone_all_repositories ==
    \/ /\ pc = "idle"
       /\ enter_loop("clone_all_repositories", "", config.repositories, <<>>, <<>>)
       /\ UNCHANGED batchFrame
    \/ /\ pc = "loop" /\ op = "clone_all_repositories" /\ idx <= Len(config.repositories)
       /\ \E eng \in CloneEngines :
            loop_body("clone_repository", "cloning", config.repositories[idx],
                      clone_repository(config.repositories[idx], eng))
       /\ UNCHANGED loopFrame
    \/ return_results("clone_all_repositories", config.repositories)

(***************************************************************************)
(* core/batch_operations.rs                                                *)
(***************************************************************************)
\* Mutation of no_repositories_found: the outcome is tagged like the
\* repository-level outcomes of the All batches.
no_repositories_found_untagged(g) ==
    <<<<"Repository", "No repositories found in group">>>>

\* the outcome list of a group batch whose group resolves to no endpoint
no_repositories_found(g) ==
    <<<<g, "No repositories found in group">>>>

\* `for repo_info in repositories { results.push((name, text)) }`
simulated_results(repos, text) ==
    [i \in 1..Len(repos) |-> <<repos[i].name, text>>]

\* Mutation of push_without_local_repository: the note is left out.
push_without_local_repository_no_note(repos) ==
    simulated_results(repos, "Simulated push result for testing environment")

\* the Err(_) arm of push_to_group_repositories: a note, then one simulated
\* outcome per member endpoint
push_without_local_repository(repos) ==
    <<<<"Repository",
        "Note: No local repository found, simulating remote operations only">>>>
    \o simulated_results(repos, "Simulated push result for testing environment")

\* batch_operations::push_to_group_repositories
push_to_group_repositories(g) ==
    \/ /\ pc = "idle"
       /\ LET repos == get_repositories_in_group(config, g) IN
          IF repos = <<>>
          THEN early_return("push_to_group_repositories", g, repos,
                            no_repositories_found(g), <<>>)
          ELSE \E open \in OpenResults, add \in AddResults, commit \in CommitResults :
                 IF open.ok
                 THEN enter_loop("push_to_group_repositories", g, repos,
                        (IF add.ok THEN <<>>
                         ELSE <<<<"Repository", "Failed to add changes: " \o add.err>>>>)
                        \o (IF commit.ok THEN <<>>
                            ELSE <<<<"Repository",
                                     "Failed to commit changes: " \o commit.err>>>>),
                        <<Call("open", "", TRUE), Call("add_all_changes", "", add.ok),
                          Call("commit_changes", "", commit.ok)>>)
                 ELSE early_return("push_to_group_repositories", g, repos,
                        push_without_local_repository(repos),
                        <<Call("open", "", FALSE)>>)
       /\ UNCHANGED batchFrame
    \/ /\ pc = "loop" /\ op = "push_to_group_repositories" /\ group_name = g
       /\ idx <= Len(repositories)
       /\ \E eng \in PushEngines :
            loop_body("push_to_remote", "pushing to", repositories[idx],
                      push_to_remote(repositories[idx], eng))
       /\ UNCHANGED loopFrame
    \/ group_name = g /\ return_results("push_to_group_repositories", repositories)

\* batch_operations::pull_from_group_repositories
pull_from_group_repositories(g) ==
    \/ /\ pc = "idle"
       /\ LET repos == get_repositories_in_group(config, g) IN
          IF repos = <<>>
          THEN early_return("pull_from_group_repositories", g, repos,
                            no_repositories_found(g), <<>>)
          ELSE \E open \in OpenResults :
                 IF open.ok
                 THEN enter_loop("pull_from_group_repositories", g, repos, <<>>,
                                 <<Call("open", "", TRUE)>>)
                 ELSE early_return("pull_from_group_repositories", g, repos,
                        simulated_results(repos,
                            "Simulated pull result for testing environment"),
                        <<Call("open", "", FALSE)>>)
       /\ UNCHANGED batchFrame
    \/ /\ pc = "loop" /\ op = "pull_from_group_repositories" /\ group_name = g
       /\ idx <= Len(repositories)
       /\ \E eng \in PullEngines :
            loop_body("pull_from_remote", "pulling from", repositories[idx],
                      pull_from_remote(repositories[idx], eng))
       /\ UNCHANGED loopFrame
    \/ group_name = g /\ return_results("pull_from_group_repositories", repositories)

\* batch_operations::fetch_from_group_repositories
fetch_from_group_repositories(g) ==
    \/ /\ pc = "idle"
       /\ LET repos == get_repositories_in_group(config, g) IN
          IF repos = <<>>
          THEN early_return("fetch_from_group_repositories", g, repos,
                            no_repositories_found(g), <<>>)
          ELSE \E open \in OpenResults :
                 IF open.ok
                 THEN enter_loop("fetch_from_group_repositories", g, repos, <<>>,
                                 <<Call("open", "", TRUE)>>)
                 ELSE early_return("fetch_from_group_repositories", g, repos,
                        simulated_results(repos,
                            "Simulated fetch result for testing environment"),
                        <<Call("open", "", FALSE)>>)
       /\ UNCHANGED batchFrame
    \/ /\ pc = "loop" /\ op = "fetch_from_group_repositories" /\ group_name = g
       /\ idx <= Len(repositories)
       /\ \E eng \in FetchEngines :
            loop_body("fetch_from_remote", "fetching from", repositories[idx],
                      fetch_from_remote(repositories[idx], eng))
       /\ UNCHANGED loopFrame
    \/ group_name = g /\ return_results("fetch_from_group_repositories", repositories)

(***************************************************************************)
(* The batch specification: a registry as loaded from repos.json, then one *)
(* batch at a time on it.                                                  *)
(***************************************************************************)
UrlOf(n) == "https://github.com/user/" \o n \o ".git"

EndpointLists ==
    {[i \in 1..Len(ns) |-> RepositoryInfo_new(ns[i], UrlOf(ns[i]))] :
        ns \in SeqsUpTo(Names, MaxRepos)}

MemberLists == {m \in SeqsUpTo(Names, MaxMembers) : NoDup(m)}

GroupLists ==
    {<<>>} \cup
    {<<[RepositoryGroup_new("G", "") EXCEPT !.repository_names = m]>> :
        m \in MemberLists}

Registries ==
    {[repositories |-> rs, groups |-> gs] : rs \in EndpointLists, gs \in GroupLists}

\* no executor has been run on its own
NoEngine == [unused |-> TRUE]

\* the thread that edits the registry has asked for nothing
NoEditor == [pc |-> "idle", kind |-> "", name |-> "", index |-> 0,
             in_flight |-> FALSE, applied |-> 0]

NoError == [operation |-> "", repository |-> "", error_message |-> "",
            error_type |-> ""]

Init ==
    /\ config \in Registries
    /\ pc = "idle" /\ op = "" /\ group_name = ""
    /\ repositories = <<>> /\ idx = 1
    /\ results = <<>> /\ calls = <<>>
    /\ raw = "" /\ classified = NoError
    /\ engine = NoEngine /\ creds = <<>> /\ editor = NoEditor

Next ==
    \/ push_to_all_repositories
    \/ pull_from_all_repositories
    \/ fetch_from_all_repositories
    \/ clone_all_repositories
    \/ \E g \in Selectors : push_to_group_repositories(g)
    \/ \E g \in Selectors : pull_from_group_repositories(g)
    \/ \E g \in Selectors : fetch_from_group_repositories(g)

Spec == Init /\ [][Next]_vars

(***************************************************************************)
(* The classifier specification: handle_git_error applied to one raw       *)
(* message, for an operation verb and an endpoint.                         *)
(***************************************************************************)
CueWords ==
    {"authentication", "Authentication", "AUTHENTICATION", "401", "403",
     "unauthorized", "Unauthorized", "UNAUTHORIZED",
     "network", "Network", "NETWORK", "connection", "Connection",
     "timeout", "Timeout",
     "permission", "Permission", "access denied", "Access Denied",
     "repository", "Repository", "not found", "Not Found",
     "corrupt", "Corrupt"}
PlainWords == {"failed", "refused"}
Words == CueWords \cup PlainWords

\* raw engine messages: one word, or two words separated by a blank
RawMessages == Words \cup {w1 \o " " \o w2 : w1, w2 \in Words}

Operations == {"pushing to", "cloning"}

InitClassify ==
    /\ config = RepoConfig_new
    /\ pc = "idle" /\ op = "" /\ group_name = ""
    /\ repositories = <<>> /\ idx = 1
    /\ results = <<>> /\ calls = <<>>
    /\ raw \in RawMessages /\ classified = NoError
    /\ engine = NoEngine /\ creds = <<>> /\ editor = NoEditor

\* one call of handle_git_error on the raw message
classify_raw_error ==
    /\ classified = NoError
    /\ \E operation \in Operations, n \in Names :
         classified' = handle_git_error(operation, RepositoryInfo_new(n, UrlOf(n)), raw)
    /\ UNCHANGED <<config, pc, op, group_name, repositories, idx, results,
                   calls, raw, engine, creds, editor>>

NextClassify == classify_raw_error

SpecClassify == InitClassify /\ [][NextClassify]_vars

(***************************************************************************)
(* Vocabulary of the properties                                            *)
(***************************************************************************)
AllOps == {"push_to_all_repositories", "pull_from_all_repositories",
           "fetch_from_all_repositories", "clone_all_repositories"}
GroupOps == {"push_to_group_repositories", "pull_from_group_repositories",
             "fetch_from_group_repositories"}
PushOps == {"push_to_all_repositories", "push_to_group_repositories"}
PushPullFetchOps == (AllOps \cup GroupOps) \ {"clone_all_repositories"}

NamesOf(rs) == [i \in 1..Len(rs) |-> rs[i].name]

\* the names listed by the groups called g
MemberSet(g) ==
    UNION {{config.groups[i].repository_names[k] :
                k \in DOMAIN config.groups[i].repository_names} :
           i \in {j \in DOMAIN config.groups : config.groups[j].name = g}}

\* the endpoint subset the running batch is to work on: the registry for the
\* All batches, the registry restricted to the group's members otherwise
ExpectedSubset ==
    IF op \in AllOps THEN config.repositories
    ELSE SelectSeq(config.repositories,
                   LAMBDA r : r.name \in MemberSet(group_name))

\* the executor invocations of the running batch, in the order made
EndpointCalls == SelectSeq(calls, LAMBDA c : c.target # "")
Targets == [i \in 1..Len(EndpointCalls) |-> EndpointCalls[i].target]
FailedCalls == {i \in 1..Len(EndpointCalls) : ~EndpointCalls[i].ok}

\* the calls on the local repository (open, stage, commit)
LocalCall(c) == c.target = ""
OpenFailed == \E i \in DOMAIN calls : calls[i].call = "open" /\ ~calls[i].ok
StageOrCommitFailed ==
    \E i \in DOMAIN calls :
        calls[i].call \in {"add_all_changes", "commit_changes"} /\ ~calls[i].ok
PreparationOk ==
    op # "" /\ \A i \in DOMAIN calls : LocalCall(calls[i]) => calls[i].ok

ResultNames == [i \in 1..Len(results) |-> results[i][1]]
NonSuccess == {i \in 1..Len(results) : results[i][2] # "Success"}

(***************************************************************************)
(* Properties of the batches (specification Spec)                          *)
(***************************************************************************)
\* C1: in every batch over a non-empty subset whose local preparation
\* succeeded, the executor invocations made so far are exactly the first
\* idx-1 endpoints of the subset, one invocation each and in subset order,
\* whatever their results; when the batch returns, every endpoint of the
\* subset has been invoked exactly once.
C1_EachEndpointAttemptedOnce ==
    (op # "" /\ PreparationOk /\ ExpectedSubset # <<>>) =>
        /\ idx - 1 <= Len(ExpectedSubset)
        /\ Targets = SubSeq(NamesOf(ExpectedSubset), 1, idx - 1)
        /\ pc = "done" => Targets = NamesOf(ExpectedSubset)

\* a batch has returned in which the first endpoint failed and the later
\* ones were attempted all the same
C1_Witness ==
    /\ pc = "done" /\ PreparationOk
    /\ Len(EndpointCalls) = 3
    /\ 1 \in FailedCalls /\ 3 \notin FailedCalls

\* C2 as stated: a push, pull or fetch batch over a non-empty subset of size n
\* with k failed endpoint operations returns n outcomes, in subset order, k
\* of them other than "Success".
C2_Original ==
    (pc = "done" /\ op \in PushPullFetchOps /\ ExpectedSubset # <<>>) =>
        /\ Len(results) = Len(ExpectedSubset)
        /\ ResultNames = NamesOf(ExpectedSubset)
        /\ Cardinality(NonSuccess) = Cardinality(FailedCalls)

\* C2 amended: the same, for the batches whose local repository opened and,
\* for push, whose staging and commit succeeded.
C2_OutcomePerEndpoint ==
    (pc = "done" /\ op \in PushPullFetchOps /\ ExpectedSubset # <<>>
     /\ PreparationOk) =>
        /\ Len(results) = Len(ExpectedSubset)
        /\ ResultNames = NamesOf(ExpectedSubset)
        /\ Cardinality(NonSuccess) = Cardinality(FailedCalls)

\* a batch over three endpoints has returned with one failure among them
C2_Witness ==
    /\ pc = "done" /\ op \in PushPullFetchOps /\ PreparationOk
    /\ Len(ExpectedSubset) = 3
    /\ Cardinality(FailedCalls) = 1 /\ Cardinality(NonSuccess) = 1

\* C3: a group batch invokes only endpoints whose name the group lists, and
\* when it returns after opening the local repository it has invoked exactly
\* the registry endpoints listed by the group, in registry order, and its
\* per-endpoint outcomes are in that order.
C3_GroupSubsetInRegistryOrder ==
    (op \in GroupOps) =>
        /\ \A i \in 1..Len(Targets) : Targets[i] \in MemberSet(group_name)
        /\ (pc = "done" /\ ~OpenFailed) => Targets = NamesOf(ExpectedSubset)
        /\ (pc = "done" /\ PreparationOk /\ ExpectedSubset # <<>>) =>
                ResultNames = NamesOf(ExpectedSubset)

\* registry [a, b, c], group G listing c before a: the push batch on G has
\* returned having invoked a then c, never b
C3_Witness ==
    /\ pc = "done" /\ op = "push_to_group_repositories" /\ group_name = "G"
    /\ NamesOf(config.repositories) = <<"a", "b", "c">>
    /\ config.groups # <<>> /\ config.groups[1].repository_names = <<"c", "a">>
    /\ Targets = <<"a", "c">> /\ ResultNames = <<"a", "c">>

\* C4: a group batch on a group name that resolves to no registry endpoint
\* (no such group, no members, or members naming no endpoint) returns at
\* once the single outcome (g, "No repositories found in group") and makes
\* no call on the local repository or on any endpoint.
C4_EmptyGroupSingleOutcome ==
    (op \in GroupOps /\ ExpectedSubset = <<>>) =>
        /\ pc = "done"
        /\ results = <<<<group_name, "No repositories found in group">>>>
        /\ calls = <<>>

\* a group batch has returned for a group whose only members name no
\* endpoint of a non-empty registry
C4_Witness ==
    /\ pc = "done" /\ op \in GroupOps /\ group_name = "G"
    /\ config.repositories # <<>>
    /\ config.groups # <<>> /\ config.groups[1].repository_names # <<>>
    /\ ExpectedSubset = <<>>
    /\ results = <<<<"G", "No repositories found in group">>>>

\* C5: in a push batch, once staging or committing has failed no endpoint is
\* pushed to and the batch returns a single outcome.
C5_LocalFailureAbortsPush ==
    (op \in PushOps /\ StageOrCommitFailed) =>
        /\ Targets = <<>>
        /\ pc = "done" => Len(results) = 1

C8_EmptyRegistrySingleOutcome ==
    (pc = "done" /\ op \in AllOps /\ config.repositories = <<>>) =>
        /\ Len(results) = 1
        /\ Contains(results[1][2], "No repositories found")
        /\ calls = <<>>

(***************************************************************************)
(* Properties of the classifier (specification SpecClassify)               *)
(***************************************************************************)
Precedence == <<"Authentication", "Network", "Permission", "Repository">>

\* the cue strings the classifier tests for each kind
Cues(kind) ==
    CASE kind = "Authentication" ->
            {"authentication", "Authentication", "401", "403", "Unauthorized"}
      [] kind = "Network" ->
            {"network", "Network", "connection", "Connection", "timeout", "Timeout"}
      [] kind = "Permission" -> {"permission", "Permission", "access denied"}
      [] kind = "Repository" ->
            {"repository", "Repository", "not found", "corrupt"}

\* the positions in Precedence of the kinds of which m contains a cue
MatchingGroups(m) ==
    {i \in 1..Len(Precedence) : \E c \in Cues(Precedence[i]) : Contains(m, c)}

Min(S) == CHOOSE i \in S : \A j \in S : i <= j

\* C9: the kind of a classified message is the earliest kind, in the order
\* Authentication, Network, Permission, Repository, of which the message
\* contains a cue, and Unknown when it contains no cue.
C9_FirstMatchingGroupWins ==
    (classified # NoError) =>
        classified.error_type =
            IF MatchingGroups(raw) = {} THEN "Unknown"
            ELSE Precedence[Min(MatchingGroups(raw))]

\* a message with both "403" and "repository" has been classified as
\* Authentication
C9_Witness ==
    /\ classified # NoError
    /\ Contains(raw, "403") /\ Contains(raw, "repository")
    /\ classified.error_type = "Authentication"

LowerAlphabet == "abcdefghijklmnopqrstuvwxyz"
UpperAlphabet == "ABCDEFGHIJKLMNOPQRSTUVWXYZ"

\* the lower-case form of a one-character string
LowerChar(c) ==
    LET hits == {i \in 1..Len(UpperAlphabet) : SubSeq(UpperAlphabet, i, i) = c}
    IN  IF hits = {} THEN c
        ELSE LET k == CHOOSE i \in hits : TRUE IN SubSeq(LowerAlphabet, k, k)

\* the lower-case form of a string
RECURSIVE ToLower(_)
ToLower(s) ==
    IF Len(s) = 0 THEN ""
    ELSE LowerChar(SubSeq(s, 1, 1)) \o ToLower(SubSeq(s, 2, Len(s)))

\* the cue words of each kind as the specification lists them
SpecCues(kind) ==
    CASE kind = "Authentication" ->
            {"authentication", "401", "403", "unauthorized"}
      [] kind = "Network" -> {"network", "connection", "timeout"}
      [] kind = "Permission" -> {"permission", "access denied"}
      [] kind = "Repository" -> {"repository", "not found", "corrupt"}

\* m contains, in some mix of upper and lower case, a cue word of the kind
ContainsCueAnyCase(kind, m) ==
    \E c \in SpecCues(kind) : Contains(ToLower(m), c)

\* C10: a message that contains a cue word of a kind in any mix of upper and
\* lower case, and no cue word of a kind of higher precedence, is classified
\* to that kind.
C10_CaseInsensitiveCues ==
    (classified # NoError) =>
        \A i \in 1..Len(Precedence) :
            (/\ ContainsCueAnyCase(Precedence[i], raw)
             /\ \A j \in 1..(i - 1) : ~ContainsCueAnyCase(Precedence[j], raw))
            => classified.error_type = Precedence[i]

(***************************************************************************)
(* The endpoint specification: one call of the formatter, or one executor  *)
(* run on one endpoint followed by the formatting the batch loop applies   *)
(* to its result.                                                          *)
(***************************************************************************)
EndpointMessages ==
    RawMessages \cup {"Merge conflicts detected", "Unknown error occurred", "Success"}

Endpoint(n) == RepositoryInfo_new(n, UrlOf(n))

\* what the engine may answer during one pull when its failures carry m
PullEnginesWith(m) ==
    {PullOk, [PullOk EXCEPT !.has_conflicts = TRUE]}
    \cup {[PullOk EXCEPT ![s] = Err(m)] : s \in PullSteps}

InitEndpoint ==
    /\ config = RepoConfig_new
    /\ pc = "idle" /\ op = "" /\ group_name = ""
    /\ repositories = <<>> /\ idx = 1
    /\ results = <<>> /\ calls = <<>>
    /\ raw \in EndpointMessages /\ classified = NoError
    /\ engine = NoEngine /\ creds = <<>> /\ editor = NoEditor

endpointFrame == <<config, group_name, repositories, idx, raw, creds, editor>>

\* GitOperationError::new(..).format_user_message() on an error of any kind
format_user_message_call ==
    /\ pc = "idle"
    /\ \E operation \in Operations, n \in Names, kind \in ErrorTypes :
         LET e == GitOperationError_new(operation, n, raw, kind) IN
         /\ classified' = e
         /\ results' = <<<<n, format_user_message(e)>>>>
         /\ calls' = <<Call(operation, n, FALSE)>>
    /\ op' = "format_user_message" /\ pc' = "done"
    /\ UNCHANGED <<endpointFrame, engine>>

\* format_error_result(operation, repo_info, result) for Ok(()) and for
\* Err(raw); `classified` is its local `error`
format_error_result_call ==
    /\ pc = "idle"
    /\ \E operation \in Operations, n \in Names, result \in {Ok, Err(raw)} :
         /\ results' = <<format_error_result(operation, Endpoint(n), result)>>
         /\ calls' = <<Call(operation, n, result.ok)>>
         /\ classified' = IF result.ok THEN NoError
                          ELSE handle_git_error(operation, Endpoint(n), result.err)
    /\ op' = "format_error_result" /\ pc' = "done"
    /\ UNCHANGED <<endpointFrame, engine>>

\* one iteration of the pull loop on its own:
\* format_error_result("pulling from", repo_info, pull_from_remote(..))
pull_endpoint ==
    /\ pc = "idle"
    /\ \E n \in Names, eng \in PullEnginesWith(raw) :
         LET result == pull_from_remote(Endpoint(n), eng) IN
         /\ engine' = eng
         /\ results' = <<format_error_result("pulling from", Endpoint(n), result)>>
         /\ calls' = <<Call("pull_from_remote", n, result.ok)>>
         /\ classified' = IF result.ok THEN NoError
                          ELSE handle_git_error("pulling from", Endpoint(n), result.err)
    /\ op' = "pull_from_remote" /\ pc' = "done"
    /\ UNCHANGED endpointFrame

\* endpoint names without and with a cue word
CueNames == {"a", "network"}

\* what the engine may answer during one push when its failures carry m
PushEnginesWith(m) ==
    {PushOk, [PushOk EXCEPT !.remote = Err(m)], [PushOk EXCEPT !.push = Err(m)]}

\* one iteration of the push loop on its own:
\* format_error_result("pushing to", repo_info, push_to_remote(..))
push_endpoint ==
    /\ pc = "idle"
    /\ \E n \in CueNames, eng \in PushEnginesWith(raw) :
         LET result == push_to_remote(Endpoint(n), eng) IN
         /\ engine' = eng
         /\ results' = <<format_error_result("pushing to", Endpoint(n), result)>>
         /\ calls' = <<Call("push_to_remote", n, result.ok)>>
         /\ classified' = IF result.ok THEN NoError
                          ELSE handle_git_error("pushing to", Endpoint(n), result.err)
    /\ op' = "push_to_remote" /\ pc' = "done"
    /\ UNCHANGED endpointFrame

NextEndpoint ==
    \/ format_user_message_call
    \/ format_error_result_call
    \/ pull_endpoint
    \/ push_endpoint

SpecEndpoint == InitEndpoint /\ [][NextEndpoint]_vars

(***************************************************************************)
(* Properties of formatting (specification SpecEndpoint)                   *)
(***************************************************************************)
\* the fixed template of each kind; the Unknown template ends with `tail`
Template(kind, operation, name, message, tail) ==
    CASE kind = "Authentication" ->
            "Authentication failed for repository '" \o name
            \o "'. Please check your credentials."
      [] kind = "Network" ->
            "Network error while " \o operation \o " repository '" \o name
            \o "'. Please check your connection."
      [] kind = "Repository" ->
            "Repository error while " \o operation \o " '" \o name
            \o "'. The repository may be corrupted or inaccessible."
      [] kind = "Permission" ->
            "Permission denied while " \o operation \o " repository '" \o name
            \o "'. Check your access rights."
      [] kind = "Unknown" ->
            "Error while " \o operation \o " repository '" \o name \o "': "
            \o message \o tail

\* the message of the one outcome produced
Message == results[1][2]

\* C11 as stated: an error of each kind renders as the template of its kind,
\* the Unknown one as "Error while {op} repository '{name}': {raw_message}."
\* with the final full stop, and the Authentication one without the verb.
C11_Original ==
    (pc = "done" /\ op = "format_user_message") =>
        /\ Message = Template(classified.error_type, classified.operation,
                              classified.repository, classified.error_message, ".")
        /\ classified.error_type = "Authentication" =>
                ~Contains(Message, classified.operation)

\* C11 amended: the same with the Unknown template
\* "Error while {op} repository '{name}': {raw_message}", which ends with the
\* raw message and has no final full stop.
C11_FixedTemplates ==
    (pc = "done" /\ op = "format_user_message") =>
        /\ Message = Template(classified.error_type, classified.operation,
                              classified.repository, classified.error_message, "")
        /\ classified.error_type = "Authentication" =>
                ~Contains(Message, classified.operation)

\* an Unknown error has been rendered for the verb "cloning" and endpoint b
C11_Witness ==
    /\ pc = "done" /\ op = "format_user_message"
    /\ classified.error_type = "Unknown" /\ raw = "Unknown error occurred"
    /\ Message = "Error while cloning repository 'b': Unknown error occurred"

\* C12: the outcome of format_error_result carries the endpoint's name; its
\* message is "Success" exactly when the result was Ok, and for Err it is
\* the rendering of the error classified from the result's message.
C12_SuccessIffOk ==
    (pc = "done" /\ op = "format_error_result") =>
        /\ results[1][1] = calls[1].target
        /\ (Message = "Success") <=> calls[1].ok
        /\ ~calls[1].ok =>
              /\ classified.error_message = raw
              /\ classified.repository = calls[1].target
              /\ Message = Template(classified.error_type, calls[1].call,
                                    calls[1].target, raw, "")

\* a failed result whose message is the word "Success" has been formatted
C12_Witness ==
    /\ pc = "done" /\ op = "format_error_result"
    /\ ~calls[1].ok /\ raw = "Success"
    /\ Message = "Error while pushing to repository 'a': Success"

\* the templates of the four kinds that have cues, for the pull batch
CueTemplates(name) ==
    {Template(Precedence[i], "pulling from", name, "", "") :
        i \in 1..Len(Precedence)}

\* C20: a pull whose merge leaves conflicts in the index fails, and the
\* outcome the batch records for it is not "Success", contains "Merge
\* conflicts detected" and is none of the templates of the kinds that have
\* cues, whatever the endpoint.
C20_ConflictsReported ==
    (pc = "done" /\ op = "pull_from_remote"
     /\ engine = [PullOk EXCEPT !.has_conflicts = TRUE]) =>
        /\ ~calls[1].ok
        /\ Message # "Success"
        /\ Contains(Message, "Merge conflicts detected")
        /\ Message \notin CueTemplates(calls[1].target)
        /\ classified.error_type = "Unknown"

\* the pull of endpoint c has ended with conflicts in the index
C20_Witness ==
    /\ pc = "done" /\ op = "pull_from_remote"
    /\ engine.has_conflicts /\ calls[1].target = "c"
    /\ Message = "Error while pulling from repository 'c': Merge conflicts detected"

(***************************************************************************)
(* The validation specification: the two URL validators applied to one     *)
(* candidate URL.                                                          *)
(***************************************************************************)
\* str::starts_with
starts_with(s, prefix) ==
    /\ Len(s) >= Len(prefix)
    /\ SubSeq(s, 1, Len(prefix)) = prefix

\* RepoConfig::validate_repository_url
RepoConfig_validate_repository_url(url) ==
    \/ starts_with(url, "https://")
    \/ starts_with(url, "http://")
    \/ starts_with(url, "git@")

validate_repository_url_anywhere(url) ==
    \/ Contains(url, "https://")
    \/ Contains(url, "http://")
    \/ Contains(url, "git@")

\* git_operations::validate_repository_url
validate_repository_url(url) ==
    \/ starts_with(url, "https://")
    \/ starts_with(url, "http://")
    \/ starts_with(url, "git@")

UrlHeads ==
    {"", "https://", "http://", "git@", "ftp://", "ssh://", "HTTPS://",
     "Http://", "GIT@", "https:/", "http:/", "https:", "http", "git", "htt",
     " https://", "xhttp://", "ssh://git@", "file://", "/"}

UrlTails ==
    {"", "github.com/user/repo.git", "github.com:user/repo.git",
     "https://", "http://h", "git@h:r", " "}

Urls == {h \o t : h \in UrlHeads, t \in UrlTails}

InitValidate ==
    /\ config = RepoConfig_new
    /\ pc = "idle" /\ op = "" /\ group_name = ""
    /\ repositories = <<>> /\ idx = 1
    /\ results = <<>> /\ calls = <<>>
    /\ raw \in Urls /\ classified = NoError
    /\ engine = NoEngine /\ creds = <<>> /\ editor = NoEditor

validateFrame ==
    <<config, pc, group_name, repositories, idx, results, raw, classified,
      engine, creds, editor>>

Called(call) == \E i \in 1..Len(calls) : calls[i].call = call

\* RepoConfig::validate_repository_url(raw), its verdict logged
validate_with_RepoConfig ==
    /\ ~Called("RepoConfig::validate_repository_url")
    /\ calls' = Append(calls, Call("RepoConfig::validate_repository_url", raw,
                                   RepoConfig_validate_repository_url(raw)))
    /\ op' = "RepoConfig::validate_repository_url"
    /\ UNCHANGED validateFrame

\* git_operations::validate_repository_url(raw), its verdict logged
validate_with_git_operations ==
    /\ ~Called("validate_repository_url")
    /\ calls' = Append(calls, Call("validate_repository_url", raw,
                                   validate_repository_url(raw)))
    /\ op' = "validate_repository_url"
    /\ UNCHANGED validateFrame

NextValidate ==
    \/ validate_with_RepoConfig
    \/ validate_with_git_operations

SpecValidate == InitValidate /\ [][NextValidate]_vars

(***************************************************************************)
(* Properties of URL validation (specification SpecValidate)               *)
(***************************************************************************)
AcceptedPrefixes == {"https://", "http://", "git@"}

\* s = p followed by something, said without starts_with
BeginsWith(s, p) == \E k \in 0..Len(s) : SubSeq(s, 1, k) = p

\* C13: each validator answers true exactly when the URL begins with
\* "https://", "http://" or "git@", so the two validators give the same
\* answer on every URL.
C13_ValidatorsAgree ==
    /\ \A i \in 1..Len(calls) :
          calls[i].ok <=> (\E p \in AcceptedPrefixes : BeginsWith(raw, p))
    /\ Len(calls) = 2 => calls[1].ok = calls[2].ok

\* both validators have answered on a URL that holds an accepted scheme
\* after its first character
C13_Witness ==
    /\ Len(calls) = 2
    /\ raw = "xhttp://github.com/user/repo.git"
    /\ ~calls[1].ok /\ ~calls[2].ok

\* both validators have accepted an ssh-style URL
C13_WitnessAccepted ==
    /\ Len(calls) = 2
    /\ raw = "git@github.com:user/repo.git"
    /\ calls[1].ok /\ calls[2].ok

(***************************************************************************)
(* The registry specification: the operations that edit the configuration  *)
(* (endpoints, groups, group members), from the first launch onwards.      *)
(***************************************************************************)
MaxGroups == 2

RegistryNames == {"a", "b"}

\* RepositoryInfo::with_auth
RepositoryInfo_with_auth(name, url, auth_type) ==
    [name |-> name, url |-> url, auth_type |-> auth_type,
     auth_token |-> "", ssh_key_path |-> "", group |-> ""]

RepositoryGroup_add_repository_unchecked(group, repo_name) ==
    [group EXCEPT !.repository_names = Append(@, repo_name)]

\* RepositoryGroup::add_repository
RepositoryGroup_add_repository(group, repo_name) ==
    IF ~SeqContains(group.repository_names, repo_name)
    THEN [group EXCEPT !.repository_names = Append(@, repo_name)]
    ELSE group

\* Vec::retain(|name| name != repo_name)
RECURSIVE retain_other_names(_, _)
retain_other_names(names, repo_name) ==
    IF names = <<>> THEN <<>>
    ELSE (IF Head(names) # repo_name THEN <<Head(names)>> ELSE <<>>)
         \o retain_other_names(Tail(names), repo_name)

\* RepositoryGroup::remove_repository
RepositoryGroup_remove_repository(group, repo_name) ==
    [group EXCEPT !.repository_names = retain_other_names(@, repo_name)]

\* Vec::remove(index), index counted from 0
Vec_remove(v, index) ==
    [j \in 1..(Len(v) - 1) |-> IF j <= index THEN v[j] ELSE v[j + 1]]

\* RepoConfig::add_repository
RepoConfig_add_repository(cfg, repo) ==
    [cfg EXCEPT !.repositories = Append(@, repo)]

\* RepoConfig::remove_repository(index), index counted from 0
RepoConfig_remove_repository(cfg, index) ==
    IF index < Len(cfg.repositories)
    THEN LET repo_name == cfg.repositories[index + 1].name IN
         [repositories |-> Vec_remove(cfg.repositories, index),
          groups |-> [k \in DOMAIN cfg.groups |->
                        RepositoryGroup_remove_repository(cfg.groups[k], repo_name)]]
    ELSE cfg

\* RepoConfig::add_group
RepoConfig_add_group(cfg, group) ==
    [cfg EXCEPT !.groups = Append(@, group)]

RepoConfig_remove_group_keep_matching(cfg, g) ==
    [cfg EXCEPT !.groups = SelectSeq(@, LAMBDA group : group.name = g)]

\* RepoConfig::remove_group
RepoConfig_remove_group(cfg, g) ==
    [cfg EXCEPT !.groups = SelectSeq(@, LAMBDA group : group.name # g)]

\* the position of the group RepoConfig::get_group_mut finds, 0 if none
get_group_mut(cfg, g) ==
    LET hits == {i \in DOMAIN cfg.groups : cfg.groups[i].name = g}
    IN  IF hits = {} THEN 0 ELSE CHOOSE i \in hits : \A j \in hits : i <= j

\* the text fields of a form, <<name, url>>: filled in well, with a URL of
\* no accepted scheme, or with one of the two left empty
FormInputs(names) ==
    {<<n, UrlOf(n)>> : n \in names}
    \cup {<<n, "ftp://github.com/user/repo.git">> : n \in names}
    \cup {<<"", UrlOf("a")>>, <<"a", "">>}

\* the indices a caller may pass: every valid one and the first past the end
Indices(v) == 0..Len(v)

\* what verify_authentication may answer for an endpoint
VerifyResults(repo_info) ==
    IF repo_info.auth_type = "Default" THEN {"Ok(true)"}
    ELSE IF repo_info.auth_token = "" THEN {"Ok(false)"}
    ELSE {"Ok(true)", "Ok(false)", "Err"}

\* repos.json holds no endpoint and no group: the application starts with
\* the first-time setup window open
InitRegistry ==
    /\ config = RepoConfig_new
    /\ pc = "setup" /\ op = "" /\ group_name = ""
    /\ repositories = <<>> /\ idx = 0
    /\ results = <<>> /\ calls = <<>>
    /\ raw = "" /\ classified = NoError
    /\ engine = NoEngine /\ creds = <<>> /\ editor = NoEditor

registryFrame == <<repositories, results, raw, classified, engine, creds, editor>>

\* the record of the operation just made: its name, its name argument, its
\* index argument, its group argument and whether it changed the registry
made(operation, target, index, g, changed) ==
    /\ op' = operation
    /\ calls' = <<Call(operation, target, changed)>>
    /\ idx' = index
    /\ group_name' = g

\* MultiRepoPusherApp::complete_first_time_setup; the window stays open,
\* render_first_time_setup writing `open` back to show_first_time_setup
complete_first_time_setup ==
    /\ pc = "setup"
    /\ \E form \in FormInputs({"origin"}) \ {<<"", UrlOf("a")>>},
          auth_type \in {"Default", "Token"}, token \in {"", "t"} :
         LET url == form[2]
             repo_info ==
                 [RepositoryInfo_with_auth("origin", url, auth_type)
                    EXCEPT !.auth_token = IF auth_type = "Token" THEN token ELSE ""]
         IN  \E verdict \in VerifyResults(repo_info) :
               LET accepted == /\ url # ""
                               /\ validate_repository_url(url)
                               /\ verdict = "Ok(true)"
               IN  /\ config' = IF accepted
                                THEN RepoConfig_add_repository(
                                        [config EXCEPT !.repositories = <<>>],
                                        repo_info)
                                ELSE config
                   /\ made("complete_first_time_setup", "origin", 0, "", accepted)
    /\ UNCHANGED <<pc, registryFrame>>

\* the first-time setup window is closed
close_first_time_setup ==
    /\ pc = "setup"
    /\ pc' = "idle"
    /\ made("render_first_time_setup", "", 0, "", FALSE)
    /\ UNCHANGED <<config, registryFrame>>

\* MultiRepoPusherApp::validate_and_add_repository on a registry of fewer
\* than `limit` endpoints
validate_and_add_repository_upto(limit) ==
    /\ pc = "idle"
    /\ Len(config.repositories) < limit
    /\ \E form \in FormInputs(RegistryNames) :
         LET name == form[1]
             url == form[2]
             accepted == /\ name # "" /\ url # ""
                         /\ validate_repository_url(url)
         IN  /\ config' = IF accepted
                          THEN RepoConfig_add_repository(config,
                                   RepositoryInfo_with_auth(name, url, "Default"))
                          ELSE config
             /\ made("validate_and_add_repository", name, 0, "", accepted)
    /\ UNCHANGED <<pc, registryFrame>>

validate_and_add_repository == validate_and_add_repository_upto(MaxRepos)

\* MultiRepoPusherApp::save_account_changes with selected_account_index and
\* the edit form filled in as one of `forms`
save_account_changes_with(forms) ==
    /\ pc = "idle"
    /\ \E selected_account_index \in Indices(config.repositories),
          form \in forms :
         LET name == form[1]
             url == form[2]
             accepted == /\ name # "" /\ url # ""
                         /\ validate_repository_url(url)
                         /\ selected_account_index < Len(config.repositories)
         IN  /\ config' = IF accepted
                          THEN [config EXCEPT
                                  !.repositories[selected_account_index + 1] =
                                      RepositoryInfo_with_auth(name, url, "Default")]
                          ELSE config
             /\ made("save_account_changes", name, selected_account_index, "",
                     accepted)
    /\ UNCHANGED <<pc, registryFrame>>

save_account_changes == save_account_changes_with(FormInputs(RegistryNames))

\* MultiRepoPusherApp::delete_selected_account with selected_account_index
delete_selected_account ==
    /\ pc = "idle"
    /\ \E selected_account_index \in Indices(config.repositories) :
         LET valid == selected_account_index < Len(config.repositories) IN
         /\ config' = IF valid
                      THEN [config EXCEPT !.repositories =
                               Vec_remove(@, selected_account_index)]
                      ELSE config
         /\ made("delete_selected_account",
                 IF valid THEN config.repositories[selected_account_index + 1].name
                 ELSE "",
                 selected_account_index, "", valid)
    /\ UNCHANGED <<pc, registryFrame>>

\* RepoConfig::remove_repository(index), as the Remove button calls it and
\* with an index past the end
remove_repository ==
    /\ pc = "idle"
    /\ \E index \in Indices(config.repositories) :
         LET valid == index < Len(config.repositories) IN
         /\ config' = RepoConfig_remove_repository(config, index)
         /\ made("remove_repository",
                 IF valid THEN config.repositories[index + 1].name ELSE "",
                 index, "", valid)
    /\ UNCHANGED <<pc, registryFrame>>

\* MultiRepoPusherApp::create_repository_group
create_repository_group ==
    /\ pc = "idle"
    /\ Len(config.groups) < MaxGroups
    /\ \E g \in Selectors \cup {""} :
         /\ config' = IF g # ""
                      THEN RepoConfig_add_group(config, RepositoryGroup_new(g, ""))
                      ELSE config
         /\ made("create_repository_group", g, 0, g, g # "")
    /\ UNCHANGED <<pc, registryFrame>>

\* RepoConfig::remove_group(group_name)
remove_group ==
    /\ pc = "idle"
    /\ \E g \in Selectors :
         /\ config' = RepoConfig_remove_group(config, g)
         /\ made("remove_group", g, 0, g, get_group_mut(config, g) # 0)
    /\ UNCHANGED <<pc, registryFrame>>

\* config.get_group_mut(g).unwrap().add_repository(repo_name)
group_add_repository ==
    /\ pc = "idle"
    /\ \E g \in Selectors, repo_name \in RegistryNames :
         LET k == get_group_mut(config, g) IN
         /\ k # 0
         /\ Len(config.groups[k].repository_names) <= MaxMembers
         /\ config' = [config EXCEPT !.groups[k] =
                          RepositoryGroup_add_repository(@, repo_name)]
         /\ made("RepositoryGroup::add_repository", repo_name, k - 1, g,
                 ~SeqContains(config.groups[k].repository_names, repo_name))
    /\ UNCHANGED <<pc, registryFrame>>

\* config.get_group_mut(g).unwrap().remove_repository(repo_name)
group_remove_repository ==
    /\ pc = "idle"
    /\ \E g \in Selectors, repo_name \in RegistryNames :
         LET k == get_group_mut(config, g) IN
         /\ k # 0
         /\ config' = [config EXCEPT !.groups[k] =
                          RepositoryGroup_remove_repository(@, repo_name)]
         /\ made("RepositoryGroup::remove_repository", repo_name, k - 1, g,
                 SeqContains(config.groups[k].repository_names, repo_name))
    /\ UNCHANGED <<pc, registryFrame>>

NextRegistry ==
    \/ complete_first_time_setup
    \/ close_first_time_setup
    \/ validate_and_add_repository
    \/ save_account_changes
    \/ delete_selected_account
    \/ remove_repository
    \/ create_repository_group
    \/ remove_group
    \/ group_add_repository
    \/ group_remove_repository

SpecRegistry == InitRegistry /\ [][NextRegistry]_vars

(***************************************************************************)
(* Properties of the registry (specification SpecRegistry)                 *)
(***************************************************************************)
\* the operation just made, and whether it changed the registry
Made(operation) == op = operation /\ calls # <<>> /\ calls[1].call = operation

\* s without every occurrence of x
Without(s, x) == SelectSeq(s, LAMBDA y : y # x)

\* C14: no group lists a name twice, whatever members were added and
\* removed; and adding a name a second time gives the list that adding it
\* once gives, a name already listed staying where it is.
C14_AddMemberIdempotent ==
    \A k \in DOMAIN config.groups :
        LET group == config.groups[k] IN
        /\ NoDup(group.repository_names)
        /\ \A x \in RegistryNames :
              LET once == RepositoryGroup_add_repository(group, x)
                  twice == RepositoryGroup_add_repository(once, x)
              IN  /\ twice = once
                  /\ NoDup(once.repository_names)
                  /\ SubSeq(once.repository_names, 1, Len(group.repository_names))
                        = group.repository_names
                  /\ SeqContains(group.repository_names, x) => once = group

\* "a" has been added to a group that lists it first and "b" second, and
\* the list is as it was
C14_Witness ==
    /\ Made("RepositoryGroup::add_repository")
    /\ ~calls[1].ok /\ calls[1].target = "a"
    /\ config.groups[idx + 1].repository_names = <<"a", "b">>

\* what the removal of the endpoint at `index` (from 0) must do to cfg
RemovedWithMembership(cfg, after, index) ==
    LET removed == cfg.repositories[index + 1].name IN
    /\ Len(after.repositories) = Len(cfg.repositories) - 1
    /\ \A j \in 1..Len(after.repositories) :
          after.repositories[j] =
              cfg.repositories[IF j <= index THEN j ELSE j + 1]
    /\ DOMAIN after.groups = DOMAIN cfg.groups
    /\ \A k \in DOMAIN cfg.groups :
          /\ after.groups[k].name = cfg.groups[k].name
          /\ after.groups[k].description = cfg.groups[k].description
          /\ after.groups[k].repository_names
                = Without(cfg.groups[k].repository_names, removed)
    /\ \A g \in Selectors :
          ~SeqContains(NamesOf(get_repositories_in_group(after, g)), removed)

\* a step that removes an endpoint from the registry by index
RemovesByIndex ==
    /\ op' \in {"remove_repository", "delete_selected_account"}
    /\ calls' # <<>> /\ calls'[1].call = op'

\* C15: a step that removes an endpoint by a valid index takes its name out
\* of every group's member list and out of every group's endpoint listing
\* and leaves the other endpoints, their order, the groups and their other
\* members as they were; with an index past the end it changes nothing.
C15_RemovalCleansGroups ==
    [][RemovesByIndex =>
         IF idx' < Len(config.repositories)
         THEN RemovedWithMembership(config, config', idx')
         ELSE config' = config]_vars

\* the same of RepoConfig::remove_repository alone
C15_RemoveRepositoryCleansGroups ==
    [][(RemovesByIndex /\ op' = "remove_repository") =>
         IF idx' < Len(config.repositories)
         THEN RemovedWithMembership(config, config', idx')
         ELSE config' = config]_vars

\* C16: a step of remove_group(g) leaves the endpoints as they were and
\* keeps, in order and unchanged, exactly the groups not named g; when no
\* group is named g the registry is unchanged.
C16_RemoveGroupFrame ==
    [][(op' = "remove_group" /\ calls' # <<>> /\ calls'[1].call = "remove_group") =>
         /\ config'.repositories = config.repositories
         /\ config'.groups =
               SelectSeq(config.groups, LAMBDA group : group.name # group_name')
         /\ (\A k \in DOMAIN config.groups : config.groups[k].name # group_name')
               => config' = config]_vars

\* group G has been removed from a registry with two endpoints; the other
\* group, H with its member "a", is what remains
C16_Witness ==
    /\ Made("remove_group") /\ calls[1].ok /\ group_name = "G"
    /\ Len(config.repositories) = 2
    /\ Len(config.groups) = 1
    /\ config.groups[1].name = "H"
    /\ config.groups[1].repository_names = <<"a">>

\* C17: no two endpoints of the registry have the same name.
C17_UniqueEndpointNames ==
    NoDup(NamesOf(config.repositories))

(***************************************************************************)
(* The credentials specification: what the credentials callback of each    *)
(* executor hands to the transport, for one endpoint.                      *)
(***************************************************************************)
MaxCredCalls == 2

\* git2::Cred values; a failed construction is the "error" one
userpass_plaintext(username, password) ==
    [kind |-> "userpass", username |-> username, password |-> password,
     privatekey |-> ""]
ssh_key(username, privatekey) ==
    [kind |-> "ssh_key", username |-> username, password |-> "",
     privatekey |-> privatekey]
Cred_default ==
    [kind |-> "default", username |-> "", password |-> "", privatekey |-> ""]
Cred_error ==
    [kind |-> "error", username |-> "", password |-> "", privatekey |-> ""]

\* format!("{}/.ssh/id_rsa", HOME)
HomeKey == "$HOME/.ssh/id_rsa"

\* Option::unwrap_or on an option held as <<>> or <<x>>
unwrap_or(option, default) == IF option = <<>> THEN default ELSE option[1]

\* the callback the five executors install, token_cred being the value of
\* its Token arm; key_ok and default_ok say whether Cred::ssh_key and
\* Cred::default succeed
credentials_callback(token_cred, repo_info, username_from_url, key_ok, default_ok) ==
    CASE repo_info.auth_type = "SSH" ->
            IF key_ok
            THEN ssh_key(unwrap_or(username_from_url, "git"), repo_info.ssh_key_path)
            ELSE Cred_error
      [] repo_info.auth_type = "Token" -> token_cred
      [] repo_info.auth_type = "Default" ->
            IF username_from_url # <<>> /\ key_ok
            THEN ssh_key(username_from_url[1], HomeKey)
            ELSE IF default_ok THEN Cred_default ELSE Cred_error

\* the callback of push_to_remote
push_to_remote_credentials(repo_info, username_from_url, key_ok, default_ok) ==
    credentials_callback(userpass_plaintext("token", repo_info.auth_token),
                         repo_info, username_from_url, key_ok, default_ok)

\* the callback of pull_from_remote
pull_from_remote_credentials(repo_info, username_from_url, key_ok, default_ok) ==
    credentials_callback(userpass_plaintext("token", repo_info.auth_token),
                         repo_info, username_from_url, key_ok, default_ok)

\* the callback of fetch_from_remote
fetch_from_remote_credentials(repo_info, username_from_url, key_ok, default_ok) ==
    credentials_callback(userpass_plaintext("token", repo_info.auth_token),
                         repo_info, username_from_url, key_ok, default_ok)

\* the callback of create_and_push_tag
create_and_push_tag_credentials(repo_info, username_from_url, key_ok, default_ok) ==
    credentials_callback(userpass_plaintext("token", repo_info.auth_token),
                         repo_info, username_from_url, key_ok, default_ok)

clone_repository_credentials_password_slot(repo_info, username_from_url, key_ok, default_ok) ==
    credentials_callback(userpass_plaintext("token", repo_info.auth_token),
                         repo_info, username_from_url, key_ok, default_ok)

\* the callback of clone_repository
clone_repository_credentials(repo_info, username_from_url, key_ok, default_ok) ==
    credentials_callback(userpass_plaintext(repo_info.auth_token, "x-oauth-basic"),
                         repo_info, username_from_url, key_ok, default_ok)

AuthTypes == {"Default", "SSH", "Token"}
Tokens == {"", "ghp_1", "token", "x-oauth-basic"}
KeyPaths == {"", "/home/u/.ssh/id_ed25519"}
UrlUsernames == {<<>>, <<"git">>, <<"u">>}

\* one endpoint of any authentication mode, no callback called yet
InitCredentials ==
    /\ config = RepoConfig_new
    /\ pc = "idle" /\ op = "" /\ group_name = ""
    /\ \E auth_type \in AuthTypes, auth_token \in Tokens, ssh_key_path \in KeyPaths :
         repositories =
            <<[RepositoryInfo_with_auth("a", UrlOf("a"), auth_type)
                 EXCEPT !.auth_token = auth_token, !.ssh_key_path = ssh_key_path]>>
    /\ idx = 1
    /\ results = <<>> /\ calls = <<>>
    /\ raw = "" /\ classified = NoError
    /\ engine = NoEngine /\ creds = <<>> /\ editor = NoEditor

credentialsFrame ==
    <<config, pc, group_name, repositories, idx, results, raw,
      classified, engine, editor>>

\* the transport asks the callback of `executor` for credentials, passing
\* username_from_url; `calls` holds this last request and whether
\* Cred::ssh_key would succeed for it
asked(executor, username_from_url, key_ok, cred) ==
    /\ Len(creds) < MaxCredCalls
    /\ creds' = Append(creds, [call |-> executor, cred |-> cred])
    /\ calls' = <<Call(executor, username_from_url, key_ok)>>
    /\ op' = executor
    /\ UNCHANGED credentialsFrame

credentials_of_push ==
    \E u \in UrlUsernames, key_ok \in BOOLEAN, default_ok \in BOOLEAN :
        asked("push_to_remote", u, key_ok,
              push_to_remote_credentials(repositories[idx], u, key_ok, default_ok))

credentials_of_pull ==
    \E u \in UrlUsernames, key_ok \in BOOLEAN, default_ok \in BOOLEAN :
        asked("pull_from_remote", u, key_ok,
              pull_from_remote_credentials(repositories[idx], u, key_ok, default_ok))

credentials_of_fetch ==
    \E u \in UrlUsernames, key_ok \in BOOLEAN, default_ok \in BOOLEAN :
        asked("fetch_from_remote", u, key_ok,
              fetch_from_remote_credentials(repositories[idx], u, key_ok, default_ok))

credentials_of_tag ==
    \E u \in UrlUsernames, key_ok \in BOOLEAN, default_ok \in BOOLEAN :
        asked("create_and_push_tag", u, key_ok,
              create_and_push_tag_credentials(repositories[idx], u, key_ok, default_ok))

credentials_of_clone ==
    \E u \in UrlUsernames, key_ok \in BOOLEAN, default_ok \in BOOLEAN :
        asked("clone_repository", u, key_ok,
              clone_repository_credentials(repositories[idx], u, key_ok, default_ok))

NextCredentials ==
    \/ credentials_of_push
    \/ credentials_of_pull
    \/ credentials_of_fetch
    \/ credentials_of_tag
    \/ credentials_of_clone

SpecCredentials == InitCredentials /\ [][NextCredentials]_vars

(***************************************************************************)
(* Properties of the credentials (specification SpecCredentials)           *)
(***************************************************************************)
PasswordSlotExecutors ==
    {"push_to_remote", "pull_from_remote", "fetch_from_remote",
     "create_and_push_tag"}

\* C18: for a Token endpoint every credential handed over by push, pull,
\* fetch and tag is the user name "token" with the token as password, every
\* one handed over by clone is the token as user name with the password
\* "x-oauth-basic", and none carries a private key.
C18_TokenSlots ==
    repositories[1].auth_type = "Token" =>
        \A i \in 1..Len(creds) :
            LET c == creds[i].cred
                token == repositories[1].auth_token
            IN  /\ c.kind = "userpass"
                /\ c.privatekey = ""
                /\ creds[i].call \in PasswordSlotExecutors =>
                      c.username = "token" /\ c.password = token
                /\ creds[i].call = "clone_repository" =>
                      c.username = token /\ c.password = "x-oauth-basic"

\* a Token endpoint that also stores a key path has been pushed to and
\* cloned
C18_Witness ==
    /\ repositories[1].auth_type = "Token"
    /\ repositories[1].auth_token = "ghp_1"
    /\ repositories[1].ssh_key_path # ""
    /\ Len(creds) = 2
    /\ creds[1].call = "push_to_remote" /\ creds[1].cred.password = "ghp_1"
    /\ creds[2].call = "clone_repository" /\ creds[2].cred.username = "ghp_1"

(***************************************************************************)
(* The concurrent specification: one batch, run under the lock of the      *)
(* Arc<Mutex<RepoConfig>>, and one other thread that edits the registry    *)
(* through the same mutex.                                                 *)
(***************************************************************************)
MaxEdits == 1

config_locked_never == FALSE

\* the batch's caller holds the MutexGuard from before the batch function
\* is called until it has returned
config_locked == pc = "loop"

ConcurrentRegistries ==
    {[repositories |-> [i \in 1..Len(ns) |-> RepositoryInfo_new(ns[i], UrlOf(ns[i]))],
      groups |-> <<[RepositoryGroup_new("G", "") EXCEPT
                        !.repository_names = <<"a", "b">>]>>] :
        ns \in {<<"a", "b">>, <<"a", "b", "c">>}}

InitConcurrent ==
    /\ config \in ConcurrentRegistries
    /\ pc = "idle" /\ op = "" /\ group_name = ""
    /\ repositories = <<>> /\ idx = 1
    /\ results = <<>> /\ calls = <<>>
    /\ raw = "" /\ classified = NoError
    /\ engine = NoEngine /\ creds = <<>> /\ editor = NoEditor

\* the edits the other thread may ask for: an endpoint to append, an index
\* to remove
Edits ==
    {[kind |-> "add", name |-> n, index |-> 0] : n \in Names}
    \cup {[kind |-> "remove", name |-> "", index |-> i] : i \in 0..(MaxRepos - 1)}

\* the edit made on the registry once the lock is held
apply_edit(cfg, e) ==
    IF e.kind = "add"
    THEN RepoConfig_add_repository(cfg, RepositoryInfo_new(e.name, UrlOf(e.name)))
    ELSE RepoConfig_remove_repository(cfg, e.index)

editorFrame ==
    <<pc, op, group_name, repositories, idx, results, calls, raw, classified,
      engine, creds>>

\* the other thread calls config.lock() for an edit; in_flight records
\* whether the batch was in its loop at that moment
editor_lock ==
    /\ editor.pc = "idle" /\ editor.applied < MaxEdits
    /\ \E e \in Edits :
         /\ e.kind = "add" => Len(config.repositories) < MaxRepos
         /\ editor' = [pc |-> "waiting", kind |-> e.kind, name |-> e.name,
                       index |-> e.index, in_flight |-> (pc = "loop"),
                       applied |-> editor.applied]
    /\ UNCHANGED <<config, editorFrame>>

\* lock() returns once the mutex is free; the edit is made and the guard
\* dropped
editor_edit ==
    /\ editor.pc = "waiting"
    /\ ~config_locked
    /\ config' = apply_edit(config, editor)
    /\ editor' = [editor EXCEPT !.pc = "idle", !.applied = @ + 1]
    /\ UNCHANGED editorFrame

NextConcurrent ==
    \/ Next
    \/ editor_lock
    \/ editor_edit

SpecConcurrent == InitConcurrent /\ [][NextConcurrent]_vars

(***************************************************************************)
(* Properties of a batch beside an editing thread (SpecConcurrent)         *)
(***************************************************************************)
\* C19: while a batch is in its loop the registry's (filtered) endpoint
\* sequence is the one the batch resolved when it started, whatever edits
\* the other thread has asked for; the endpoints the batch has worked on
\* are the first idx-1 of that sequence, in order, and a batch that has
\* returned from its loop has worked on exactly that sequence.
C19_BatchSequenceFixed ==
    /\ pc = "loop" =>
          /\ ExpectedSubset = repositories
          /\ Targets = SubSeq(NamesOf(repositories), 1, idx - 1)
    /\ (pc = "done" /\ EndpointCalls # <<>>) => Targets = NamesOf(repositories)

\* the other thread asked to remove the first endpoint while the batch over
\* a, b, c was in its loop; the batch has worked on a, b, c and returned, and
\* the removal has been made since
C19_Witness ==
    /\ pc = "done" /\ op = "pull_from_all_repositories"
    /\ Targets = <<"a", "b", "c">>
    /\ editor.in_flight /\ editor.kind = "remove" /\ editor.index = 0
    /\ editor.pc = "idle" /\ editor.applied = 1
    /\ NamesOf(config.repositories) = <<"b", "c">>

(***************************************************************************)
(* The push specification: the three push batches (All, Group, command     *)
(* line) on a registry drawn as in Spec.                                   *)
(***************************************************************************)
\* cli::runner::run_cli; `results` holds what it prints for each endpoint
\* (without the leading mark)
run_cli ==
    \/ /\ pc = "idle"
       /\ \E open \in OpenResults, add \in AddResults, commit \in CommitResults :
            IF ~open.ok
            THEN early_return("run_cli", "", <<>>, <<>>,
                     <<Call("open", "", FALSE)>>)
            ELSE IF ~add.ok
            THEN early_return("run_cli", "", <<>>, <<>>,
                     <<Call("open", "", TRUE), Call("add_all_changes", "", FALSE)>>)
            ELSE IF ~commit.ok
            THEN early_return("run_cli", "", <<>>, <<>>,
                     <<Call("open", "", TRUE), Call("add_all_changes", "", TRUE),
                       Call("commit_changes", "", FALSE)>>)
            ELSE enter_loop("run_cli", "", config.repositories, <<>>,
                     <<Call("open", "", TRUE), Call("add_all_changes", "", TRUE),
                       Call("commit_changes", "", TRUE)>>)
       /\ UNCHANGED batchFrame
    \/ /\ pc = "loop" /\ op = "run_cli" /\ idx <= Len(config.repositories)
       /\ \E eng \in PushEngines :
            LET repo_info == config.repositories[idx]
                result == push_to_remote(repo_info, eng)
            IN  /\ results' = Append(results,
                      <<repo_info.name,
                        IF result.ok
                        THEN "Successfully pushed to " \o repo_info.name
                        ELSE "Failed to push to " \o repo_info.name \o ": "
                             \o result.err>>)
                /\ calls' = Append(calls,
                      Call("push_to_remote", repo_info.name, result.ok))
                /\ idx' = idx + 1
                /\ pc' = "loop"
       /\ UNCHANGED loopFrame
    \/ return_results("run_cli", config.repositories)

NextPush ==
    \/ push_to_all_repositories
    \/ \E g \in Selectors : push_to_group_repositories(g)
    \/ run_cli

SpecPush == Init /\ [][NextPush]_vars

(***************************************************************************)
(* Properties of the push batches (specification SpecPush)                 *)
(***************************************************************************)
PushBatches == PushOps \cup {"run_cli"}

\* the positions in the log of the calls named c
CallsOf(c) == {i \in DOMAIN calls : calls[i].call = c}
EndpointPositions == {i \in DOMAIN calls : calls[i].target # ""}
Opened == \E i \in CallsOf("open") : calls[i].ok

\* each call named c was made before every endpoint push
BeforePushes(c) == \A i \in CallsOf(c), j \in EndpointPositions : i < j

\* the local repository is touched by open, stage and commit and by nothing
\* else, so HEAD stays at the commit made
CommitKept ==
    \A i \in DOMAIN calls :
        LocalCall(calls[i]) =>
            calls[i].call \in {"open", "add_all_changes", "commit_changes"}

\* C21 as stated: a push batch whose local repository opened has staged
\* once and committed once, both before its first push, and has not undone
\* the commit.
C21_Original ==
    (pc = "done" /\ op \in PushBatches /\ Opened) =>
        /\ Cardinality(CallsOf("add_all_changes")) = 1
        /\ Cardinality(CallsOf("commit_changes")) = 1
        /\ BeforePushes("add_all_changes") /\ BeforePushes("commit_changes")
        /\ CommitKept

\* C21 amended: such a batch stages exactly once and commits at most once;
\* once it has attempted a push it has staged once and committed once, both
\* before the first push; it commits unless it returned on a failed staging;
\* and no step undoes the commit, whatever the pushes answer.
C21_StageCommitOnceBeforePushes ==
    (op \in PushBatches /\ Opened) =>
        /\ Cardinality(CallsOf("add_all_changes")) = 1
        /\ Cardinality(CallsOf("commit_changes")) <= 1
        /\ EndpointPositions # {} =>
              Cardinality(CallsOf("commit_changes")) = 1
        /\ CallsOf("commit_changes") = {} =>
              /\ \E i \in CallsOf("add_all_changes") : ~calls[i].ok
              /\ EndpointPositions = {}
        /\ BeforePushes("add_all_changes") /\ BeforePushes("commit_changes")
        /\ \A i \in CallsOf("add_all_changes"), j \in CallsOf("commit_changes") :
              i < j
        /\ CommitKept

\* a push batch over three endpoints has returned with every push failed
\* after one staging and one commit
C21_Witness ==
    /\ pc = "done" /\ op = "push_to_all_repositories"
    /\ Len(calls) = 6
    /\ SubSeq(calls, 1, 3) = <<Call("open", "", TRUE),
                               Call("add_all_changes", "", TRUE),
                               Call("commit_changes", "", TRUE)>>
    /\ Len(EndpointCalls) = 3 /\ FailedCalls = {1, 2, 3}
    /\ CommitKept

(***************************************************************************)
(* The local-repository specification: the executors run on the endpoints  *)
(* of a small registry against one local repository whose remotes and tags *)
(* persist from one run to the next.  `engine` is that repository, `calls` *)
(* the engine calls of the last run, `results` its outcome.                *)
(***************************************************************************)
LocalNames == {"a", "origin"}
AltUrlOf(n) == "git@github.com:user/" \o n \o ".git"
UrlsOf(n) == {UrlOf(n), AltUrlOf(n)}
TagNames == {"v1"}

\* Repository::find_remote(name): the remotes of that name, <<name, url>>
find_remote(repo, name) == {r \in repo.remotes : r[1] = name}

\* `match repo.find_remote(name) { Ok(remote) => remote,
\*                                 Err(_) => repo.remote(name, url)? }`
\* where `created` is what Repository::remote answers when the name is free
resolve_remote(repo, repo_info, created) ==
    LET found == find_remote(repo, repo_info.name) IN
    IF found # {}
    THEN [result |-> Ok, url |-> (CHOOSE r \in found : TRUE)[2], repo |-> repo,
          calls |-> <<Call("find_remote", repo_info.name, TRUE)>>]
    ELSE IF created.ok
    THEN [result |-> Ok, url |-> repo_info.url,
          repo |-> [repo EXCEPT !.remotes = @ \cup {<<repo_info.name, repo_info.url>>}],
          calls |-> <<Call("find_remote", repo_info.name, FALSE),
                      Call("remote", repo_info.name, TRUE)>>]
    ELSE [result |-> created, url |-> "", repo |-> repo,
          calls |-> <<Call("find_remote", repo_info.name, FALSE),
                      Call("remote", repo_info.name, FALSE)>>]

steps_ignoring_failure(steps) == steps

\* a chain of engine calls each ended by `?`: the calls made are those up
\* to the first that fails
RECURSIVE steps_until_failure(_)
steps_until_failure(steps) ==
    IF steps = <<>> THEN <<>>
    ELSE IF ~Head(steps).ok THEN <<Head(steps)>>
    ELSE <<Head(steps)>> \o steps_until_failure(Tail(steps))

\* the engine calls pull_from_remote makes, given what each would answer
pull_from_remote_calls(repo, repo_info, eng) ==
    LET remote == resolve_remote(repo, repo_info, eng.remote) IN
    IF ~remote.result.ok THEN remote.calls
    ELSE remote.calls \o steps_until_failure(
            <<Call("fetch", remote.url, eng.fetch.ok),
              Call("find_reference", "FETCH_HEAD", eng.fetch_head.ok),
              Call("reference_to_annotated_commit", "FETCH_HEAD", eng.annotated.ok),
              Call("merge", "FETCH_HEAD", eng.merge.ok),
              Call("index", "", eng.index.ok),
              Call("has_conflicts", "", ~eng.has_conflicts)>>)

\* the engine calls fetch_from_remote makes
fetch_from_remote_calls(repo, repo_info, eng) ==
    LET remote == resolve_remote(repo, repo_info, eng.remote) IN
    IF ~remote.result.ok THEN remote.calls
    ELSE remote.calls \o steps_until_failure(
            <<Call("fetch", remote.url, eng.fetch.ok)>>)

LocalRegistries ==
    {[repositories |-> [i \in 1..Len(ns) |-> RepositoryInfo_new(ns[i], UrlOf(ns[i]))],
      groups |-> <<>>] : ns \in {<<"origin">>, <<"a", "origin">>}}

\* a working copy with no remote or with the remote "origin" it was cloned
\* from, and no tag
InitLocal ==
    /\ config \in LocalRegistries
    /\ pc = "idle" /\ op = "" /\ group_name = ""
    /\ repositories = <<>> /\ idx = 1
    /\ results = <<>> /\ calls = <<>>
    /\ raw = "" /\ classified = NoError
    /\ engine \in {[remotes |-> rs, tags |-> {}, cloned |-> {}] :
                      rs \in {{}, {<<"origin", UrlOf("origin")>>}}}
    /\ creds = <<>> /\ editor = NoEditor

localFrame == <<group_name, repositories, raw, classified, creds, editor>>

\* one iteration of a pull loop: pull_from_remote on endpoint i and the
\* outcome pushed for it
pull_from_remote_run ==
    /\ pc = "idle"
    /\ \E i \in DOMAIN config.repositories, eng \in PullEngines :
         LET repo_info == config.repositories[i]
             remote == resolve_remote(engine, repo_info, eng.remote)
             result == pull_from_remote(repo_info,
                                        [eng EXCEPT !.remote = remote.result])
         IN  /\ engine' = remote.repo
             /\ calls' = pull_from_remote_calls(engine, repo_info, eng)
             /\ results' = <<format_error_result("pulling from", repo_info, result)>>
             /\ idx' = i
    /\ op' = "pull_from_remote"
    /\ UNCHANGED <<config, pc, localFrame>>

\* one iteration of a fetch loop
fetch_from_remote_run ==
    /\ pc = "idle"
    /\ \E i \in DOMAIN config.repositories, eng \in FetchEngines :
         LET repo_info == config.repositories[i]
             remote == resolve_remote(engine, repo_info, eng.remote)
             result == fetch_from_remote(repo_info,
                                         [eng EXCEPT !.remote = remote.result])
         IN  /\ engine' = remote.repo
             /\ calls' = fetch_from_remote_calls(engine, repo_info, eng)
             /\ results' = <<format_error_result("fetching from", repo_info, result)>>
             /\ idx' = i
    /\ op' = "fetch_from_remote"
    /\ UNCHANGED <<config, pc, localFrame>>

\* the engine calls push_to_remote makes
push_to_remote_calls(repo, repo_info, eng) ==
    LET remote == resolve_remote(repo, repo_info, eng.remote) IN
    IF ~remote.result.ok THEN remote.calls
    ELSE remote.calls \o steps_until_failure(
            <<Call("push", remote.url, eng.push.ok)>>)

\* one iteration of a push loop
push_to_remote_run ==
    /\ pc = "idle"
    /\ \E i \in DOMAIN config.repositories, eng \in PushEngines :
         LET repo_info == config.repositories[i]
             remote == resolve_remote(engine, repo_info, eng.remote)
             result == push_to_remote(repo_info,
                                      [eng EXCEPT !.remote = remote.result])
         IN  /\ engine' = remote.repo
             /\ calls' = push_to_remote_calls(engine, repo_info, eng)
             /\ results' = <<format_error_result("pushing to", repo_info, result)>>
             /\ idx' = i
    /\ op' = "push_to_remote"
    /\ UNCHANGED <<config, pc, localFrame>>

\* the edit form: the endpoint name "a" with one of its two URLs
UrlForms == {<<"a", u>> : u \in UrlsOf("a")}

\* Repository::remote(name, url) on a repository: the name must be free
Repository_remote(remotes, name, url, created) ==
    IF \E r \in remotes : r[1] = name
    THEN [result |-> Err("remote '" \o name \o "' already exists"),
          remotes |-> remotes]
    ELSE IF created.ok
    THEN [result |-> Ok, remotes |-> remotes \cup {<<name, url>>}]
    ELSE [result |-> created, remotes |-> remotes]

\* RepoBuilder::clone(url, path): the new repository has the remote
\* "origin" pointing at url
RepoBuilder_clone(url) == {<<"origin", url>>}

\* one iteration of the clone loop: clone_repository on endpoint i;
\* engine.cloned is the remotes of the repository at the destination
clone_repository_run ==
    /\ pc = "idle"
    /\ \E i \in DOMAIN config.repositories, eng \in CloneEngines :
         LET repo_info == config.repositories[i]
             added == Repository_remote(RepoBuilder_clone(repo_info.url),
                                        repo_info.name, repo_info.url, eng.remote)
             result == clone_repository(repo_info,
                                        [eng EXCEPT !.remote = added.result])
         IN  /\ engine' = [engine EXCEPT !.cloned =
                              IF eng.clone.ok THEN added.remotes ELSE {}]
             /\ calls' = steps_until_failure(
                            <<Call("clone", repo_info.url, eng.clone.ok),
                              Call("remote", repo_info.name, added.result.ok)>>)
             /\ results' = <<format_error_result("cloning", repo_info, result)>>
             /\ idx' = i
    /\ op' = "clone_repository"
    /\ UNCHANGED <<config, pc, localFrame>>

TagOk == [head |-> Ok, peel |-> Ok, signature |-> Ok, tag |-> Ok,
          remote |-> Ok, push |-> Ok]
TagSteps == {"head", "peel", "signature", "tag", "remote", "push"}
TagEngines ==
    {TagOk} \cup {[TagOk EXCEPT ![s] = Err(m)] : s \in TagSteps, m \in RawErrors}

\* Repository::tag(name, .., force = false): the name must be free; `created`
\* is what the engine answers when it is
Repository_tag(repo, tag_name, created) ==
    IF tag_name \in repo.tags THEN Err("tag already exists") ELSE created

\* git_operations::create_and_push_tag on one endpoint: its result, the
\* local repository afterwards and the engine calls made
create_and_push_tag(repo, repo_info, tag_name, eng) ==
    LET tagged == Repository_tag(repo, tag_name, eng.tag)
        tag_made == eng.head.ok /\ eng.peel.ok /\ eng.signature.ok /\ tagged.ok
        repo_tagged == IF tag_made THEN [repo EXCEPT !.tags = @ \cup {tag_name}]
                       ELSE repo
        remote == resolve_remote(repo_tagged, repo_info, eng.remote)
    IN  [result |->
            IF ~eng.head.ok THEN map_err("getting HEAD in", repo_info, eng.head)
            ELSE IF ~eng.peel.ok
                 THEN map_err("peeling HEAD to commit in", repo_info, eng.peel)
            ELSE IF ~eng.signature.ok
                 THEN map_err("getting signature in", repo_info, eng.signature)
            ELSE IF ~tagged.ok THEN map_err("creating tag in", repo_info, tagged)
            ELSE IF ~remote.result.ok THEN Err(remote.result.err)
            ELSE map_err("pushing tag to", repo_info, eng.push),
         repo |-> IF tag_made THEN remote.repo ELSE repo,
         calls |->
            LET local == steps_until_failure(
                            <<Call("head", "", eng.head.ok),
                              Call("peel_to_commit", "", eng.peel.ok),
                              Call("signature", "", eng.signature.ok),
                              Call("tag", tag_name, tagged.ok)>>)
            IN  IF ~tag_made THEN local
                ELSE IF ~remote.result.ok THEN local \o remote.calls
                ELSE local \o remote.calls
                     \o <<Call("push_tag", remote.url, eng.push.ok)>>]

\* MultiRepoPusherApp::create_and_push_tag, the tag batch: `raw` holds its
\* tag_name, `calls` the engine calls of the whole batch
MultiRepoPusherApp_create_and_push_tag ==
    \/ /\ pc = "idle"
       /\ \E tag_name \in TagNames, open \in OpenResults :
            /\ raw' = tag_name
            /\ calls' = <<Call("open", "", open.ok)>>
            /\ pc' = IF open.ok THEN "tag" ELSE "idle"
       /\ op' = "create_and_push_tag" /\ results' = <<>> /\ idx' = 1
       /\ UNCHANGED <<config, engine, group_name, repositories, classified,
                      creds, editor>>
    \/ /\ pc = "tag" /\ idx <= Len(config.repositories)
       /\ \E eng \in TagEngines :
            LET repo_info == config.repositories[idx]
                run == create_and_push_tag(engine, repo_info, raw, eng)
            IN  /\ results' = Append(results,
                      <<repo_info.name,
                        IF run.result.ok THEN "Success" ELSE run.result.err>>)
                /\ calls' = calls \o run.calls
                /\ engine' = run.repo
       /\ idx' = idx + 1
       /\ UNCHANGED <<config, pc, op, localFrame>>
    \/ /\ pc = "tag" /\ idx > Len(config.repositories)
       /\ pc' = "idle"
       /\ UNCHANGED <<config, op, idx, results, calls, engine, localFrame>>

NextLocal ==
    \/ push_to_remote_run
    \/ pull_from_remote_run
    \/ fetch_from_remote_run
    \/ clone_repository_run
    \/ save_account_changes_with(UrlForms)

SpecLocal == InitLocal /\ [][NextLocal]_vars

NextTag == MultiRepoPusherApp_create_and_push_tag

SpecTag == InitLocal /\ [][NextTag]_vars

(***************************************************************************)
(* Claims about one executor on the local repository.                      *)
(***************************************************************************)

\* the steps of a pull after its remote is resolved, in the order of the code
PullOrder == <<"fetch", "find_reference", "reference_to_annotated_commit",
               "merge", "index", "has_conflicts">>

ResolveCalls == {"find_remote", "remote"}

\* the calls of the last executor run that come after resolving the remote
StepsAfterResolve == SelectSeq(calls, LAMBDA c : c.call \notin ResolveCalls)

\* the remote was resolved: found, or created after it was not found
RemoteResolved ==
    \E k \in DOMAIN calls : calls[k].call \in ResolveCalls /\ calls[k].ok

CallNames == {calls[k].call : k \in DOMAIN calls}

Outcome == results[1][2]

\* C22: a pull resolves the remote, then fetches, locates the fetched tip,
\* merges and checks for conflicts in that order, each step made only if
\* every earlier one succeeded; its outcome is "Success" only if all of them
\* were made and succeeded with no conflict; a fetch never merges
C22_PullStepsInOrder ==
    /\ op = "pull_from_remote" =>
         /\ calls # <<>> /\ calls[1].call = "find_remote"
         /\ \A k \in DOMAIN calls :
               calls[k].call \in ResolveCalls =>
                  \A j \in 1..(k - 1) : calls[j].call \in ResolveCalls
         /\ Len(StepsAfterResolve) <= Len(PullOrder)
         /\ \A k \in DOMAIN StepsAfterResolve :
               /\ StepsAfterResolve[k].call = PullOrder[k]
               /\ RemoteResolved
               /\ \A j \in 1..(k - 1) : StepsAfterResolve[j].ok
         /\ Outcome = "Success" =>
               /\ Len(StepsAfterResolve) = Len(PullOrder)
               /\ \A k \in DOMAIN StepsAfterResolve : StepsAfterResolve[k].ok
    /\ op = "fetch_from_remote" =>
         /\ "merge" \notin CallNames
         /\ \A k \in DOMAIN StepsAfterResolve :
               StepsAfterResolve[k].call = "fetch" /\ RemoteResolved

\* a pull whose fetch failed
C22_Witness ==
    /\ op = "pull_from_remote"
    /\ \E k \in DOMAIN calls : calls[k].call = "fetch" /\ ~calls[k].ok

\* the endpoint the last executor run worked on
Endpoint_run == config.repositories[idx]

\* C23: every push for an endpoint is sent to the endpoint's current url,
\* also when a remote of the endpoint's name already exists in the local
\* repository with another URL
C23_PushGoesToCurrentUrl ==
    op = "push_to_remote" =>
        \A k \in DOMAIN calls :
            calls[k].call = "push" => calls[k].target = Endpoint_run.url

\* the engine refused to add a remote under a name that was free in the
\* repository it had just cloned
RemoteRefused ==
    \E k \in DOMAIN calls :
        /\ calls[k].call = "remote" /\ ~calls[k].ok
        /\ \A r \in RepoBuilder_clone(Endpoint_run.url) : r[1] # calls[k].target

\* C24: whenever the engine's clone of the endpoint's url succeeds (and the
\* engine refuses no remote of a free name), clone_repository returns
\* success and the new repository has the remote endpoint.name -> endpoint.url,
\* the name "origin" included
C24_CloneRegistersEndpoint ==
    (op = "clone_repository" /\ calls[1].ok /\ ~RemoteRefused) =>
        /\ Outcome = "Success"
        /\ <<Endpoint_run.name, Endpoint_run.url>> \in engine.cloned

\* a tag batch that opened the local repository has returned
TagBatchReturned ==
    /\ op = "create_and_push_tag" /\ pc = "idle"
    /\ calls # <<>> /\ calls[1].call = "open" /\ calls[1].ok

\* the positions in the trace of the calls that create the tag
TagCalls == {k \in DOMAIN calls : calls[k].call = "tag"}

\* the tag did not exist when the batch began (its first creation succeeded)
\* and the engine refused no other call of the batch (a remote that is not
\* found is created)
TagFreshAndEngineWilling ==
    /\ TagCalls # {}
    /\ \A k \in DOMAIN calls :
          \/ calls[k].ok
          \/ calls[k].call = "find_remote"
          \/ calls[k].call = "tag" /\ \E j \in TagCalls : j < k

\* C25: a tag batch over n >= 2 endpoints with a tag that does not exist yet,
\* where every endpoint's push would succeed, ends with n outcomes "Success":
\* the outcome of an endpoint does not depend on the endpoints before it
C25_TagBatchAllSucceed ==
    (TagBatchReturned /\ Len(config.repositories) >= 2 /\ TagFreshAndEngineWilling)
        => /\ Len(results) = Len(config.repositories)
           /\ \A i \in DOMAIN results : results[i][2] = "Success"

(***************************************************************************)
(* The Default mode of the credentials callback (SpecCredentials)          *)
(***************************************************************************)
\* the credential the callback handed over last, and the request it answered
LastCred == creds[Len(creds)].cred
LastUsername == calls[1].target
LastKeyOk == calls[1].ok

\* C26: for a Default endpoint the callback of every executor answers with
\* the key $HOME/.ssh/id_rsa under the user name supplied, or "git" when
\* none is supplied, whenever that key credential can be made, turns to the
\* platform default only when it cannot, and never hands over the stored
\* token or key path
C26_DefaultPolicy ==
    (repositories[1].auth_type = "Default" /\ creds # <<>>) =>
        /\ LastKeyOk => LastCred = ssh_key(unwrap_or(LastUsername, "git"), HomeKey)
        /\ ~LastKeyOk => LastCred.kind \in {"default", "error"}
        /\ LastCred.password = ""
        /\ LastCred.privatekey \in {"", HomeKey}

(***************************************************************************)
(* The persisted registry (specification SpecLoad).  A JSON object is a    *)
(* function from the keys present to their values; `engine.document` is    *)
(* the content of repos.json.                                              *)
(***************************************************************************)
Loaded(value) == [ok |-> TRUE, value |-> value]

\* serde's error for a field without #[serde(default)] that is absent
missing_field(field) == Err("missing field " \o field)

\* #[serde(default)]: the value of the key, or the default when it is absent
serde_default(object, field, default) ==
    IF field \in DOMAIN object THEN object[field] ELSE default

\* Deserialize for AuthType with its #[serde(rename = ..)] attributes
AuthType_deserialize(s) ==
    CASE s = "ssh" -> Loaded("SSH")
      [] s = "token" -> Loaded("Token")
      [] s = "default" -> Loaded("Default")
      [] OTHER -> Err("unknown variant " \o s)

\* Serialize for AuthType
AuthType_serialize(auth_type) ==
    CASE auth_type = "SSH" -> "ssh"
      [] auth_type = "Token" -> "token"
      [] auth_type = "Default" -> "default"

\* Deserialize for RepositoryInfo: name and url are required
RepositoryInfo_deserialize(object) ==
    IF "name" \notin DOMAIN object THEN missing_field("name")
    ELSE IF "url" \notin DOMAIN object THEN missing_field("url")
    ELSE LET auth_type == IF "auth_type" \in DOMAIN object
                          THEN AuthType_deserialize(object.auth_type)
                          ELSE Loaded("Default")
         IN  IF ~auth_type.ok THEN auth_type
             ELSE Loaded([name |-> object.name, url |-> object.url,
                          auth_type |-> auth_type.value,
                          auth_token |-> serde_default(object, "auth_token", ""),
                          ssh_key_path |-> serde_default(object, "ssh_key_path", ""),
                          group |-> serde_default(object, "group", "")])

RepositoryInfo_serialize(repo_info) ==
    [repo_info EXCEPT !.auth_type = AuthType_serialize(@)]

\* Deserialize for RepositoryGroup: no field has a default
RepositoryGroup_deserialize(object) ==
    IF "name" \notin DOMAIN object THEN missing_field("name")
    ELSE IF "description" \notin DOMAIN object THEN missing_field("description")
    ELSE IF "repository_names" \notin DOMAIN object
    THEN missing_field("repository_names")
    ELSE Loaded([name |-> object.name, description |-> object.description,
                 repository_names |-> object.repository_names])

RepositoryGroup_serialize(group) == group

\* Deserialize for Vec<T>, `items` being its elements deserialized: the
\* values in order, or the first error
Vec_deserialize(items) ==
    LET failed == {i \in DOMAIN items : ~items[i].ok} IN
    IF failed # {}
    THEN items[CHOOSE i \in failed : \A j \in failed : i <= j]
    ELSE Loaded([i \in DOMAIN items |-> items[i].value])

\* Deserialize for RepoConfig: repositories is required
RepoConfig_deserialize(document) ==
    IF "repositories" \notin DOMAIN document THEN missing_field("repositories")
    ELSE LET repos == Vec_deserialize(
                          [i \in DOMAIN document.repositories |->
                              RepositoryInfo_deserialize(document.repositories[i])])
             groups == IF "groups" \in DOMAIN document
                       THEN Vec_deserialize(
                               [i \in DOMAIN document.groups |->
                                   RepositoryGroup_deserialize(document.groups[i])])
                       ELSE Loaded(<<>>)
         IN  IF ~repos.ok THEN repos
             ELSE IF ~groups.ok THEN groups
             ELSE Loaded([repositories |-> repos.value,
                          config_name |-> serde_default(document, "config_name", ""),
                          groups |-> groups.value])

RepoConfig_serialize(cfg) ==
    [repositories |-> [i \in DOMAIN cfg.repositories |->
                          RepositoryInfo_serialize(cfg.repositories[i])],
     config_name |-> cfg.config_name,
     groups |-> [i \in DOMAIN cfg.groups |->
                    RepositoryGroup_serialize(cfg.groups[i])]]

\* a function restricted to some of its keys
Restrict(object, keys) == [k \in keys |-> object[k]]

\* endpoint records: name and url with any of the four other fields left out
EndpointRecords ==
    {Restrict([name |-> "a", url |-> UrlOf("a"), auth_type |-> auth,
               auth_token |-> "t", ssh_key_path |-> "/k", group |-> "g"],
              {"name", "url"} \cup optional) :
        auth \in {"ssh", "token", "default"},
        optional \in SUBSET {"auth_type", "auth_token", "ssh_key_path", "group"}}

\* group records: the name with the description or the member list left out
GroupRecords ==
    {Restrict([name |-> "g", description |-> "d", repository_names |-> <<"a">>],
              {"name"} \cup optional) :
        optional \in SUBSET {"description", "repository_names"}}

\* registry documents of at most one endpoint and one group, with
\* config_name or groups left out
Documents ==
    {Restrict([repositories |-> repos, config_name |-> "Default", groups |-> groups],
              {"repositories"} \cup optional) :
        repos \in {<<>>} \cup {<<e>> : e \in EndpointRecords},
        groups \in {<<>>} \cup {<<g>> : g \in GroupRecords},
        optional \in SUBSET {"config_name", "groups"}}

InitLoad ==
    /\ engine \in {[document |-> d] : d \in Documents}
    /\ config = RepoConfig_new
    /\ pc = "start" /\ op = "" /\ group_name = ""
    /\ repositories = <<>> /\ idx = 1
    /\ results = <<>> /\ calls = <<>>
    /\ raw = "" /\ classified = NoError
    /\ creds = <<>> /\ editor = NoEditor

loadFrame == <<group_name, repositories, idx, results, classified, creds, editor>>

\* main calls load_repo_config and returns its error through `?`; `raw` is
\* that error
load_repo_config ==
    /\ pc \in {"start", "saved"}
    /\ LET loaded == RepoConfig_deserialize(engine.document) IN
         /\ config' = IF loaded.ok THEN loaded.value ELSE config
         /\ raw' = IF loaded.ok THEN "" ELSE loaded.err
         /\ pc' = IF loaded.ok THEN "idle" ELSE "exit"
         /\ calls' = <<Call("from_str", "repos.json", loaded.ok)>>
    /\ op' = "load_repo_config"
    /\ UNCHANGED <<engine, loadFrame>>

\* the registry in memory written out with the derived Serialize
save_repo_config ==
    /\ pc = "idle"
    /\ engine' = [document |-> RepoConfig_serialize(config)]
    /\ pc' = "saved"
    /\ op' = "save_repo_config"
    /\ calls' = <<Call("to_string", "repos.json", TRUE)>>
    /\ UNCHANGED <<config, raw, loadFrame>>

NextLoad == load_repo_config \/ save_repo_config

SpecLoad == InitLoad /\ [][NextLoad]_vars

\* the registry a document stands for when every field the document leaves
\* out takes its default or empty value
EndpointWithDefaults(object) ==
    [name |-> object.name, url |-> object.url,
     auth_type |-> IF "auth_type" \in DOMAIN object
                   THEN CHOOSE a \in AuthTypes : AuthType_serialize(a) = object.auth_type
                   ELSE "Default",
     auth_token |-> IF "auth_token" \in DOMAIN object THEN object.auth_token ELSE "",
     ssh_key_path |-> IF "ssh_key_path" \in DOMAIN object
                      THEN object.ssh_key_path ELSE "",
     group |-> IF "group" \in DOMAIN object THEN object.group ELSE ""]

GroupWithDefaults(object) ==
    [name |-> object.name,
     description |-> IF "description" \in DOMAIN object
                     THEN object.description ELSE "",
     repository_names |-> IF "repository_names" \in DOMAIN object
                          THEN object.repository_names ELSE <<>>]

RegistryWithDefaults(document) ==
    [repositories |-> [i \in DOMAIN document.repositories |->
                          EndpointWithDefaults(document.repositories[i])],
     config_name |-> IF "config_name" \in DOMAIN document
                     THEN document.config_name ELSE "",
     groups |-> IF "groups" \in DOMAIN document
                THEN [i \in DOMAIN document.groups |->
                         GroupWithDefaults(document.groups[i])]
                ELSE <<>>]

\* C27: loading a document never fails for a missing optional field: the
\* registry loaded is the document's with Default and empty values where the
\* document leaves out an endpoint's auth mode, token, key path or group, the
\* config_name, the groups, or a group's description or member list; and a
\* registry saved is a document with the auth modes "ssh", "token",
\* "default" that loads as the same registry
C27_LoadDefaults ==
    /\ op = "load_repo_config" =>
          /\ pc = "idle"
          /\ config = RegistryWithDefaults(engine.document)
    /\ op = "save_repo_config" =>
          /\ \A i \in DOMAIN config.repositories :
                engine.document.repositories[i].auth_type \in {"ssh", "token", "default"}
          /\ RepoConfig_deserialize(engine.document) = Loaded(config)

(***************************************************************************)
(* The outcome message of a failed push (SpecEndpoint)                     *)
(***************************************************************************)
\* the kind handle_git_error gives the raw engine error of the last push
RawKind == handle_git_error("pushing to", Endpoint(calls[1].target), raw).error_type

\* C28: the outcome message of a failed push is the template of the kind of
\* the raw engine error classified once, and the kind the batch layer
\* arrives at is that same kind, whatever the raw error and the endpoint's
\* name
C28_ClassifiedOnce ==
    (pc = "done" /\ op = "push_to_remote" /\ ~calls[1].ok) =>
        /\ classified.error_type = RawKind
        /\ Message = Template(RawKind, "pushing to", calls[1].target, raw, "")

(***************************************************************************)
(* The group handlers of the interactive layer (specification SpecGroups)  *)
(***************************************************************************)
\* RepoConfig::remove_repository_from_group(repo_name, group_name), which
\* gui/app.rs calls: the registry's removeMember, taking the name out of the
\* member list of the group of that name
RepoConfig_remove_repository_from_group(cfg, repo_name, g) ==
    LET k == get_group_mut(cfg, g) IN
    IF k = 0 THEN cfg
    ELSE [cfg EXCEPT !.groups[k] = RepositoryGroup_remove_repository(@, repo_name)]

\* MultiRepoPusherApp::add_repository_to_group(repo_index, group_name)
add_repository_to_group ==
    /\ pc = "idle"
    /\ \E repo_index \in Indices(config.repositories), g \in Selectors :
         LET valid == repo_index < Len(config.repositories)
             repo_name == config.repositories[repo_index + 1].name
             k == get_group_mut(config, g)
         IN  /\ config' =
                  IF valid /\ k # 0
                  THEN [config EXCEPT
                          !.groups[k] = RepositoryGroup_add_repository(@, repo_name),
                          !.repositories[repo_index + 1].group = g]
                  ELSE config
             /\ made("add_repository_to_group",
                     IF valid THEN repo_name ELSE "", repo_index, g,
                     valid /\ k # 0)
    /\ UNCHANGED <<pc, registryFrame>>

\* MultiRepoPusherApp::remove_repository_from_group(repo_index, group_name)
remove_repository_from_group ==
    /\ pc = "idle"
    /\ \E repo_index \in Indices(config.repositories), g \in Selectors :
         LET valid == repo_index < Len(config.repositories)
             repo_name == config.repositories[repo_index + 1].name
         IN  /\ config' =
                  IF valid
                  THEN RepoConfig_remove_repository_from_group(config, repo_name, g)
                  ELSE config
             /\ made("remove_repository_from_group",
                     IF valid THEN repo_name ELSE "", repo_index, g, valid)
    /\ UNCHANGED <<pc, registryFrame>>

MaxGroupRepos == 2

\* a registry loaded with the groups "G" and "H", both empty, and no
\* endpoint; the first-time setup window is closed
InitGroups ==
    /\ config = [repositories |-> <<>>,
                 groups |-> <<RepositoryGroup_new("G", ""),
                              RepositoryGroup_new("H", "")>>]
    /\ pc = "idle" /\ op = "" /\ group_name = ""
    /\ repositories = <<>> /\ idx = 0
    /\ results = <<>> /\ calls = <<>>
    /\ raw = "" /\ classified = NoError
    /\ engine = NoEngine /\ creds = <<>> /\ editor = NoEditor

NextGroups ==
    \/ validate_and_add_repository_upto(MaxGroupRepos)
    \/ save_account_changes
    \/ delete_selected_account
    \/ remove_repository
    \/ add_repository_to_group
    \/ remove_repository_from_group

SpecGroups == InitGroups /\ [][NextGroups]_vars

\* a registry loaded with the endpoints "a" and "b", in no group, and the
\* empty groups "G" and "H"
InitMembership ==
    /\ config = [repositories |-> <<RepositoryInfo_new("a", UrlOf("a")),
                                    RepositoryInfo_new("b", UrlOf("b"))>>,
                 groups |-> <<RepositoryGroup_new("G", ""),
                              RepositoryGroup_new("H", "")>>]
    /\ pc = "idle" /\ op = "" /\ group_name = ""
    /\ repositories = <<>> /\ idx = 0
    /\ results = <<>> /\ calls = <<>>
    /\ raw = "" /\ classified = NoError
    /\ engine = NoEngine /\ creds = <<>> /\ editor = NoEditor

NextMembership ==
    \/ add_repository_to_group
    \/ remove_repository_from_group
    \/ remove_group
    \/ remove_repository

SpecMembership == InitMembership /\ [][NextMembership]_vars

\* the names of the endpoints now in the registry
EndpointNames == {config.repositories[i].name : i \in DOMAIN config.repositories}

\* the positions of the groups whose member list holds the name
GroupsListing(name) ==
    {k \in DOMAIN config.groups :
        SeqContains(config.groups[k].repository_names, name)}

\* C29: every name in every group's member list is the name of an endpoint
\* now in the registry
C29_NoDanglingMembers ==
    \A k \in DOMAIN config.groups :
        \A j \in DOMAIN config.groups[k].repository_names :
            config.groups[k].repository_names[j] \in EndpointNames

\* C30: an endpoint whose group field is a non-empty name g is listed by a
\* group named g, and no endpoint is listed by more than one group
C30_BackReferenceConsistent ==
    \A i \in DOMAIN config.repositories :
        LET e == config.repositories[i] IN
        /\ e.group # "" =>
              \E k \in GroupsListing(e.name) : config.groups[k].name = e.group
        /\ Cardinality(GroupsListing(e.name)) <= 1

====
